---- MODULE Spec2Model ----
(***************************************************************************)
(* Model of the multi-packet BLE receiver of src/multipacket_ble.py:       *)
(* MultiPacketBLEReceiver (process_packet, cleanup, register_parser),      *)
(* StreamBuffer and parse_captouch_data.                                   *)
(*                                                                         *)
(* Byte strings are sequences of integers 0..255, timestamps are integers  *)
(* (seconds), a timedelta is a number of seconds.  Python's None is the    *)
(* record None; a dict is a function whose DOMAIN is its key set.          *)
(***************************************************************************)
EXTENDS Integers, Sequences, FiniteSets, TLC

VARIABLES
    stream_timeout,     \* self.stream_timeout (seconds)
    dedup_timeout,      \* self.dedup_timeout (seconds)
    streams,            \* self.streams: (device_id, stream_id) -> StreamBuffer
    seen_packets,       \* self.seen_packets: (device_id, stream_id, sequence) -> timestamp
    completed_streams,  \* self.completed_streams
    parsers,            \* self.parsers: data_type -> parser function
    stats,              \* self.stats
    last,               \* the most recent call: its arguments and what it returned
    history,            \* bookkeeping about StreamBuffer objects over the run
    clock,              \* datetime.now()
    driver,             \* the caller: free use of the API, or a scripted scenario
    cleanup_thread,     \* self._cleanup_thread: position and locals of _cleanup_loop
    cleanup_stop_event, \* self._cleanup_stop_event
    callers,            \* the threads inside process_packet: position and locals
    heap                \* the StreamBuffer objects, when threads share them

vars == <<stream_timeout, dedup_timeout, streams, seen_packets,
          completed_streams, parsers, stats, last, history, clock, driver,
          cleanup_thread, cleanup_stop_event, callers, heap>>

threading == <<cleanup_thread, cleanup_stop_event, callers, heap>>

receiver == <<stream_timeout, dedup_timeout, streams, seen_packets,
              completed_streams, parsers, stats>>

----------------------------------------------------------------------------
(* Bounds of the model *)

MaxCalls == 3        \* process_packet calls in one run of the free caller
MaxTime == 3         \* timestamps are 0..MaxTime
MaxTotal == 2        \* decoder cases: total_packets and sequence are 0..MaxTotal
MaxF == 3            \* scenario: number of distinct fragments
MaxR == 2            \* scenario: presentations of each fragment
MaxInputCalls == 2   \* process_packet calls in one run over the wider arguments
MaxThreadCalls == 3  \* process_packet calls in one run of the producer threads
MaxSweptCalls == 2   \* process_packet calls in one run beside the cleanup thread
MaxStopCalls == 1    \* process_packet calls in one run with stop()
MaxStopTime == 2     \* seconds that pass in one run with stop()
MaxStreamCalls == 4  \* process_packet calls in one run over several streams
MaxSweepCalls == 2   \* process_packet calls in one run over several streams with cleanup
MaxQueueCalls == 4   \* process_packet calls in one run with get_completed_stream

(* Program constants *)

COMPANY_ID == 65509          \* 0xFFE5
PROTOCOL_ID == 170           \* 0xAA
DATA_TYPE_BINARY == 2        \* 0x02
DATA_TYPE_CAPTOUCH == 221    \* 0xDD
CAPTOUCH_BYTES == 168
CAPTOUCH_SAMPLES == 84

None == [tag |-> "None"]

----------------------------------------------------------------------------
(* Python helpers *)

Min(a, b) == IF a < b THEN a ELSE b

\* b[i:j] for 0 <= i <= j
Slice(b, i, j) == SubSeq(b, i + 1, Min(j, Len(b)))

\* b[i:]
SliceFrom(b, i) == SubSeq(b, i + 1, Len(b))

\* struct.pack('<H', x)
PackU16LE(x) == <<x % 256, (x \div 256) % 256>>

\* struct.unpack('<H', s) raises struct.error unless len(s) = 2
UnpackU16LERaises(s) == Len(s) # 2
UnpackU16LE(s) == s[1] + 256 * s[2]

\* b[i] for 0 <= i < len(b)
At(b, i) == b[i + 1]

\* b[i] raises IndexError unless i < len(b)
IndexRaises(b, i) == i >= Len(b)

Zeros(n) == [i \in 1..n |-> 0]

RemoveKeys(f, ks) == [k \in DOMAIN f \ ks |-> f[k]]

----------------------------------------------------------------------------
(* Fragment decoder *)

\* a str is the sequence of its characters
RECURSIVE Replace0x(_)
\* s.replace('0x', '')
Replace0x(s) ==
    IF Len(s) < 2 THEN s
    ELSE IF s[1] = "0" /\ s[2] = "x" THEN Replace0x(SubSeq(s, 3, Len(s)))
    ELSE <<s[1]>> \o Replace0x(Tail(s))

\* s.replace(ch, '') for a single character ch
RemoveChar(s, ch) == LET Keep(c) == c # ch IN SelectSeq(s, Keep)

\* manufacturer_data.replace('0x', '').replace(' ', '').replace(':', '')
Cleaned(s) == RemoveChar(RemoveChar(Replace0x(s), " "), ":")

HexValue ==
    [c \in {"0", "1", "2", "3", "4", "5", "6", "7", "8", "9",
            "a", "b", "c", "d", "e", "f", "A", "B", "C", "D", "E", "F"} |->
        CASE c = "0" -> 0 [] c = "1" -> 1 [] c = "2" -> 2 [] c = "3" -> 3
          [] c = "4" -> 4 [] c = "5" -> 5 [] c = "6" -> 6 [] c = "7" -> 7
          [] c = "8" -> 8 [] c = "9" -> 9
          [] c \in {"a", "A"} -> 10 [] c \in {"b", "B"} -> 11
          [] c \in {"c", "C"} -> 12 [] c \in {"d", "D"} -> 13
          [] c \in {"e", "E"} -> 14 [] c \in {"f", "F"} -> 15]

\* bytes.fromhex(cleaned) raises ValueError on a character that is not a hex
\* digit or on an odd number of digits (cleaned holds no whitespace)
FromHexRaises(cleaned) ==
    \/ \E i \in DOMAIN cleaned : cleaned[i] \notin DOMAIN HexValue
    \/ Len(cleaned) % 2 = 1

FromHex(cleaned) ==
    [i \in 1..(Len(cleaned) \div 2) |->
        16 * HexValue[cleaned[2 * i - 1]] + HexValue[cleaned[2 * i]]]

\* _parse_manufacturer_data: bytes are returned as they are, a str is
\* cleaned and decoded from hex (None when that raises), anything else is None
parse_manufacturer_data(manufacturer_data) ==
    IF manufacturer_data.pytype = "bytes"
    THEN manufacturer_data.value
    ELSE IF manufacturer_data.pytype = "str"
    THEN IF FromHexRaises(Cleaned(manufacturer_data.value))
         THEN None
         ELSE FromHex(Cleaned(manufacturer_data.value))
    ELSE None

\* the statements of the try block of _parse_packet_header that raise
\* (struct.error, IndexError) on a buffer of 10 bytes or more
HeaderUnpackRaises(data_bytes) ==
    \/ UnpackU16LERaises(Slice(data_bytes, 0, 2))
    \/ IndexRaises(data_bytes, 2)
    \/ IndexRaises(data_bytes, 3)
    \/ UnpackU16LERaises(Slice(data_bytes, 10, 12))
    \/ IndexRaises(data_bytes, 12)
    \/ IndexRaises(data_bytes, 13)
    \/ UnpackU16LERaises(Slice(data_bytes, 14, 16))

HeaderMinLength == 10

\* a decoder without the "sequence >= total_packets" validation
parse_packet_header_unvalidated(data_bytes) ==
    IF Len(data_bytes) < HeaderMinLength THEN None
    ELSE IF HeaderUnpackRaises(data_bytes) THEN None
    ELSE IF UnpackU16LE(Slice(data_bytes, 0, 2)) # COMPANY_ID THEN None
    ELSE IF At(data_bytes, 2) # PROTOCOL_ID THEN None
    ELSE [data_type |-> At(data_bytes, 3),
          stream_id |-> UnpackU16LE(Slice(data_bytes, 10, 12)),
          total_packets |-> At(data_bytes, 12),
          sequence |-> At(data_bytes, 13),
          payload_length |-> UnpackU16LE(Slice(data_bytes, 14, 16)),
          payload |-> SliceFrom(data_bytes, 16)]

parse_packet_header(data_bytes) ==
    IF Len(data_bytes) < HeaderMinLength THEN None
    ELSE IF HeaderUnpackRaises(data_bytes) THEN None
    ELSE LET company_id == UnpackU16LE(Slice(data_bytes, 0, 2))
             protocol_id == At(data_bytes, 2)
             data_type == At(data_bytes, 3)
             stream_id == UnpackU16LE(Slice(data_bytes, 10, 12))
             total_packets == At(data_bytes, 12)
             sequence == At(data_bytes, 13)
             payload_length == UnpackU16LE(Slice(data_bytes, 14, 16))
         IN  IF company_id # COMPANY_ID THEN None
             ELSE IF protocol_id # PROTOCOL_ID THEN None
             ELSE IF sequence >= total_packets THEN None
             ELSE [data_type |-> data_type,
                   stream_id |-> stream_id,
                   total_packets |-> total_packets,
                   sequence |-> sequence,
                   payload_length |-> payload_length,
                   payload |-> SliceFrom(data_bytes, 16)]

----------------------------------------------------------------------------
(* Deduplication index *)

\* a key that leaves the device out
DedupKeyWithoutDevice(device_id, header) == <<"", header.stream_id, header.sequence>>

DedupKey(device_id, header) == <<device_id, header.stream_id, header.sequence>>

\* a device_id that cannot be a dict key: a list that holds the address
UnhashableDevice == "['AA:BB:CC:DD:EE:FF']"

\* `key in self.seen_packets` raises TypeError when the key is unhashable
IsDuplicateRaises(device_id) == device_id = UnhashableDevice

\* a dedup check that never finds the key
is_duplicate_never(device_id, header, timestamp) == FALSE

is_duplicate(device_id, header, timestamp) ==
    DedupKey(device_id, header) \in DOMAIN seen_packets

\* a mark_seen that records nothing
mark_seen_dropped(device_id, header, timestamp) == seen_packets

\* a mark_seen that records the key without the time of the sighting
mark_seen_unstamped(device_id, header, timestamp) ==
    (DedupKey(device_id, header) :> 0) @@ seen_packets

mark_seen(device_id, header, timestamp) ==
    (DedupKey(device_id, header) :> timestamp) @@ seen_packets

----------------------------------------------------------------------------
(* StreamBuffer *)

StreamBuffer(device_id, stream_id, data_type, total_packets, payload_length, timestamp) ==
    [device_id |-> device_id,
     stream_id |-> stream_id,
     data_type |-> data_type,
     total_packets |-> total_packets,
     payload_length |-> payload_length,
     first_packet_time |-> timestamp,
     packets |-> <<>>]

add_packet(stream, sequence, payload) ==
    [stream EXCEPT !.packets = (sequence :> payload) @@ stream.packets]

\* a completion test that is off by one
is_complete_early(stream) ==
    Cardinality(DOMAIN stream.packets) + 1 >= stream.total_packets

\* a completion test that waits for one fragment more than the total
is_complete_late(stream) ==
    Cardinality(DOMAIN stream.packets) > stream.total_packets

is_complete(stream) ==
    Cardinality(DOMAIN stream.packets) = stream.total_packets

RECURSIVE ConcatRangeDescending(_, _, _)
\* a loop that appends the payloads from the highest sequence number down
ConcatRangeDescending(stream, seq, total_packets) ==
    IF seq >= total_packets THEN <<>>
    ELSE ConcatRangeDescending(stream, seq + 1, total_packets)
         \o (IF seq \in DOMAIN stream.packets THEN stream.packets[seq] ELSE <<>>)

RECURSIVE ConcatRange(_, _, _)
\* the loop of get_data: the payloads of seq, seq+1, ..., total_packets-1
ConcatRange(stream, seq, total_packets) ==
    IF seq >= total_packets THEN <<>>
    ELSE (IF seq \in DOMAIN stream.packets THEN stream.packets[seq] ELSE <<>>)
         \o ConcatRange(stream, seq + 1, total_packets)

RECURSIVE MissingRange(_, _, _)
MissingRange(stream, seq, total_packets) ==
    IF seq >= total_packets THEN <<>>
    ELSE (IF seq \in DOMAIN stream.packets THEN <<>> ELSE <<seq>>)
         \o MissingRange(stream, seq + 1, total_packets)

\* no trimming at all
TrimToExpectedNever(data_bytes, payload_length) == data_bytes

\* data_bytes[:payload_length] when data_bytes is longer than payload_length
TrimToExpected(data_bytes, payload_length) ==
    IF Len(data_bytes) > payload_length
    THEN Slice(data_bytes, 0, payload_length)
    ELSE data_bytes

\* datetime.isoformat()
Isoformat(t) == <<"iso", t>>

get_data(stream) ==
    LET data_bytes == TrimToExpected(ConcatRange(stream, 0, stream.total_packets),
                                     stream.payload_length)
        missing == MissingRange(stream, 0, stream.total_packets)
    IN  [device_id |-> stream.device_id,
         stream_id |-> stream.stream_id,
         data_type |-> stream.data_type,
         timestamp |-> Isoformat(stream.first_packet_time),
         data |-> data_bytes,
         length |-> Len(data_bytes),
         expected_length |-> stream.payload_length,
         packets_received |-> Cardinality(DOMAIN stream.packets),
         packets_expected |-> stream.total_packets,
         complete |-> Len(missing) = 0,
         missing_packets |-> missing]

----------------------------------------------------------------------------
(* Payload parsers *)

\* struct.unpack('>h', two bytes)
UnpackI16BE(hi, lo) ==
    LET u == 256 * hi + lo IN IF u >= 32768 THEN u - 65536 ELSE u

RECURSIVE SumSeq(_)
SumSeq(s) == IF s = <<>> THEN 0 ELSE s[1] + SumSeq(Tail(s))

ParserRaises(parser_func, data) ==
    parser_func = "parse_captouch_data" /\ Len(data) < CAPTOUCH_BYTES

\* parse_captouch_data; an average sum/len is the pair <<sum, len>>
parse_captouch_data(data) ==
    LET samples == [i \in 1..CAPTOUCH_SAMPLES |->
                        UnpackI16BE(At(data, 2 * (i - 1)), At(data, 2 * (i - 1) + 1))]
        vdd_ref == Slice(samples, 0, 8)
        gnd_ref == Slice(samples, 8, 16)
    IN  [total_samples |-> Len(samples),
         vdd_ref |-> vdd_ref,
         gnd_ref |-> gnd_ref,
         self_cap_raw |-> Slice(samples, 16, 50),
         mutual_cap_raw |-> Slice(samples, 50, 84),
         vdd_avg |-> <<SumSeq(vdd_ref), Len(vdd_ref)>>,
         gnd_avg |-> <<SumSeq(gnd_ref), Len(gnd_ref)>>,
         adc_range |-> <<SumSeq(vdd_ref) - SumSeq(gnd_ref), Len(vdd_ref)>>]

\* parser_func(data) for parse_captouch_data and for a parser of the
\* caller's own, lambda data: {'length': len(data)}
CallParser(parser_func, data) ==
    IF parser_func = "parse_captouch_data"
    THEN parse_captouch_data(data)
    ELSE [length |-> Len(data)]

----------------------------------------------------------------------------
(* Receiver core *)

\* a key that leaves the device out
StreamKeyWithoutDevice(device_id, header) == <<"", header.stream_id>>

StreamKey(device_id, header) == <<device_id, header.stream_id>>

InitStats ==
    [packets_received |-> 0,
     packets_duplicate |-> 0,
     streams_completed |-> 0,
     streams_timeout |-> 0,
     parse_errors |-> 0]

InitHistory == [objs |-> <<>>, active |-> <<>>]

Bump(counter) == [stats EXCEPT ![counter] = @ + 1]

\* bookkeeping: a StreamBuffer object is constructed for key
NoteCreated(h, key, total_packets) ==
    [objs |-> Append(h.objs, [key |-> key, total_packets |-> total_packets,
                              timeouts |-> 0, completions |-> 0]),
     active |-> (key :> (Len(h.objs) + 1)) @@ h.active]

\* bookkeeping: the StreamBuffer under key is delivered and deleted
NoteCompleted(h, key) ==
    [objs |-> [h.objs EXCEPT ![h.active[key]].completions = @ + 1],
     active |-> RemoveKeys(h.active, {key})]

\* a "get or create" that seeds an existing StreamBuffer again from the
\* header of every fragment
GetOrCreateReseeded(stream_key, device_id, header, timestamp) ==
    (stream_key :> [StreamBuffer(device_id, header.stream_id, header.data_type,
                                 header.total_packets, header.payload_length,
                                 timestamp)
                       EXCEPT !.packets = IF stream_key \in DOMAIN streams
                                          THEN streams[stream_key].packets
                                          ELSE <<>>]) @@ streams

\* the stream table after the "get or create" of process_packet
GetOrCreate(stream_key, device_id, header, timestamp) ==
    IF stream_key \notin DOMAIN streams
    THEN (stream_key :> StreamBuffer(device_id, header.stream_id, header.data_type,
                                     header.total_packets, header.payload_length,
                                     timestamp)) @@ streams
    ELSE streams

\* the message of a completed stream after the "parse if parser available" step
WithParsed(header, complete_data) ==
    IF header.data_type \in DOMAIN parsers
       /\ ~ParserRaises(parsers[header.data_type], complete_data.data)
    THEN [k \in DOMAIN complete_data \cup {"parsed"} |->
            IF k = "parsed"
            THEN CallParser(parsers[header.data_type], complete_data.data)
            ELSE complete_data[k]]
    ELSE complete_data

\* a decoder failure that is swallowed without being counted
ParserFailsUncounted(header, complete_data) == FALSE

ParserFails(header, complete_data) ==
    /\ header.data_type \in DOMAIN parsers
    /\ ParserRaises(parsers[header.data_type], complete_data.data)

\* the header process_packet decodes from its argument, or None
HeaderOf(manufacturer_data) ==
    LET data_bytes == parse_manufacturer_data(manufacturer_data)
    IN  IF data_bytes = None THEN None ELSE parse_packet_header(data_bytes)

\* the record of a process_packet call: its arguments, the header decoded
\* from them and the value returned
Called(device_id, manufacturer_data, timestamp, ret) ==
    [op |-> "process_packet", device_id |-> device_id,
     manufacturer_data |-> manufacturer_data, timestamp |-> timestamp,
     header |-> HeaderOf(manufacturer_data), ret |-> ret]

\* a rejection that counts the malformed input as a parse error
RejectInvalidCounted(device_id, manufacturer_data, timestamp) ==
    /\ stats' = [Bump("packets_received") EXCEPT !.parse_errors = @ + 1]
    /\ last' = Called(device_id, manufacturer_data, timestamp, None)
    /\ UNCHANGED <<stream_timeout, dedup_timeout, streams, seen_packets,
                   completed_streams, parsers, history>>

\* a rejection that returns before the received counter is touched
RejectInvalidUnreceived(device_id, manufacturer_data, timestamp) ==
    /\ last' = Called(device_id, manufacturer_data, timestamp, None)
    /\ UNCHANGED <<stream_timeout, dedup_timeout, streams, seen_packets,
                   completed_streams, parsers, stats, history>>

\* process_packet returns None before the dedup check: the input is not a fragment
RejectInvalid(device_id, manufacturer_data, timestamp) ==
    /\ stats' = Bump("packets_received")
    /\ last' = Called(device_id, manufacturer_data, timestamp, None)
    /\ UNCHANGED <<stream_timeout, dedup_timeout, streams, seen_packets,
                   completed_streams, parsers, history>>

\* an exception that leaves a function
Raised(exc) == [tag |-> "raise", exc |-> exc]

\* a handler that lets the exception through
ExceptExceptionReraised(exc) == Raised(exc)

\* "except Exception as e: ... return None" of process_packet
ExceptException(exc) == None

\* process_packet when the try block raises at the dedup check
CatchAtDuplicateCheck(device_id, manufacturer_data, timestamp) ==
    /\ stats' = Bump("packets_received")
    /\ last' = Called(device_id, manufacturer_data, timestamp,
                      ExceptException("TypeError"))
    /\ UNCHANGED <<stream_timeout, dedup_timeout, streams, seen_packets,
                   completed_streams, parsers, history>>

\* a rejection that refreshes the timestamp of the dedup entry
RejectDuplicateRefreshing(device_id, manufacturer_data, timestamp) ==
    /\ stats' = [Bump("packets_received") EXCEPT !.packets_duplicate = @ + 1]
    /\ seen_packets' = mark_seen(device_id, HeaderOf(manufacturer_data), timestamp)
    /\ last' = Called(device_id, manufacturer_data, timestamp, None)
    /\ UNCHANGED <<stream_timeout, dedup_timeout, streams,
                   completed_streams, parsers, history>>

\* process_packet returns None at the dedup check
RejectDuplicate(device_id, manufacturer_data, timestamp) ==
    /\ stats' = [Bump("packets_received") EXCEPT !.packets_duplicate = @ + 1]
    /\ last' = Called(device_id, manufacturer_data, timestamp, None)
    /\ UNCHANGED <<stream_timeout, dedup_timeout, streams, seen_packets,
                   completed_streams, parsers, history>>

\* process_packet from "mark packet as seen" on
Accept(device_id, manufacturer_data, header, timestamp) ==
    LET stream_key == StreamKey(device_id, header)
        table == GetOrCreate(stream_key, device_id, header, timestamp)
        stream == add_packet(table[stream_key], header.sequence, header.payload)
        h == IF stream_key \in DOMAIN streams THEN history
             ELSE NoteCreated(history, stream_key, header.total_packets)
    IN  /\ seen_packets' = mark_seen(device_id, header, timestamp)
        /\ IF is_complete(stream)
           THEN LET complete_data == WithParsed(header, get_data(stream))
                IN  /\ streams' = RemoveKeys(table, {stream_key})
                    /\ stats' = [Bump("packets_received") EXCEPT
                                   !.parse_errors =
                                       IF ParserFails(header, get_data(stream))
                                       THEN @ + 1 ELSE @,
                                   !.streams_completed = @ + 1]
                    /\ completed_streams' = Append(completed_streams, complete_data)
                    /\ history' = NoteCompleted(h, stream_key)
                    /\ last' = Called(device_id, manufacturer_data, timestamp, complete_data)
           ELSE /\ streams' = [table EXCEPT ![stream_key] = stream]
                /\ stats' = Bump("packets_received")
                /\ history' = h
                /\ last' = Called(device_id, manufacturer_data, timestamp, None)
                /\ UNCHANGED completed_streams
        /\ UNCHANGED <<stream_timeout, dedup_timeout, parsers>>

process_packet(device_id, manufacturer_data, timestamp) ==
    LET header == HeaderOf(manufacturer_data)
    IN  IF header = None
        THEN RejectInvalid(device_id, manufacturer_data, timestamp)
        ELSE IF IsDuplicateRaises(device_id)
        THEN CatchAtDuplicateCheck(device_id, manufacturer_data, timestamp)
        ELSE IF is_duplicate(device_id, header, timestamp)
        THEN RejectDuplicate(device_id, manufacturer_data, timestamp)
        ELSE Accept(device_id, manufacturer_data, header, timestamp)

----------------------------------------------------------------------------
(* Garbage collector *)

\* a first loop that also collects the streams whose age equals the timeout
TimedOutStreamsInclusive(now) ==
    {key \in DOMAIN streams : now - streams[key].first_packet_time >= stream_timeout}

\* the keys the first loop of cleanup collects in to_remove
TimedOutStreams(now) ==
    {key \in DOMAIN streams : now - streams[key].first_packet_time > stream_timeout}

\* a second loop that also collects the entries whose age equals the timeout
ExpiredPacketsInclusive(now) ==
    {key \in DOMAIN seen_packets : now - seen_packets[key] >= dedup_timeout}

\* the keys the second loop of cleanup collects in to_remove
ExpiredPackets(now) ==
    {key \in DOMAIN seen_packets : now - seen_packets[key] > dedup_timeout}

\* bookkeeping: the StreamBuffers under keys are counted as timed out and deleted
NoteTimedOut(h, counted, deleted) ==
    [objs |-> [u \in DOMAIN h.objs |->
                 IF \E key \in counted : key \in DOMAIN h.active /\ h.active[key] = u
                 THEN [h.objs[u] EXCEPT !.timeouts = @ + 1]
                 ELSE h.objs[u]],
     active |-> RemoveKeys(h.active, deleted)]

\* a sweep that counts the timed-out streams and leaves them in the table
StreamsAfterCleanupKept(now) == streams

StreamsAfterCleanup(now) == RemoveKeys(streams, TimedOutStreams(now))

cleanup(now) ==
    /\ stats' = [stats EXCEPT !.streams_timeout = @ + Cardinality(TimedOutStreams(now))]
    /\ streams' = StreamsAfterCleanup(now)
    /\ seen_packets' = RemoveKeys(seen_packets, ExpiredPackets(now))
    /\ history' = NoteTimedOut(history, TimedOutStreams(now),
                               DOMAIN streams \ DOMAIN streams')
    /\ last' = [op |-> "cleanup", now |-> now, ret |-> None]
    /\ UNCHANGED <<stream_timeout, dedup_timeout, completed_streams, parsers>>

----------------------------------------------------------------------------
(* Queue of completed messages *)

\* a retrieval that pops the newest message, list.pop() without index
get_completed_stream_newest ==
    /\ IF completed_streams # <<>>
       THEN /\ completed_streams' = SubSeq(completed_streams, 1, Len(completed_streams) - 1)
            /\ last' = [op |-> "get_completed_stream",
                        ret |-> completed_streams[Len(completed_streams)]]
       ELSE /\ UNCHANGED completed_streams
            /\ last' = [op |-> "get_completed_stream", ret |-> None]
    /\ UNCHANGED <<stream_timeout, dedup_timeout, streams, seen_packets, parsers,
                   stats, history>>

\* lines 240-244: pop(0) of a non-empty list, None otherwise
get_completed_stream ==
    /\ IF completed_streams # <<>>
       THEN /\ completed_streams' = Tail(completed_streams)
            /\ last' = [op |-> "get_completed_stream", ret |-> Head(completed_streams)]
       ELSE /\ UNCHANGED completed_streams
            /\ last' = [op |-> "get_completed_stream", ret |-> None]
    /\ UNCHANGED <<stream_timeout, dedup_timeout, streams, seen_packets, parsers,
                   stats, history>>

\* lines 246-253: the entry of get_stats that reports the queue
completed_pending == Len(completed_streams)

----------------------------------------------------------------------------
(* Decoder registry *)

\* a registration that keeps the parser a tag already has
register_parser_keeping_first(data_type, parser_func) ==
    /\ parsers' = IF data_type \in DOMAIN parsers THEN parsers
                  ELSE (data_type :> parser_func) @@ parsers
    /\ last' = [op |-> "register_parser", data_type |-> data_type, ret |-> None]
    /\ UNCHANGED <<stream_timeout, dedup_timeout, streams, seen_packets,
                   completed_streams, stats, history>>

register_parser(data_type, parser_func) ==
    /\ parsers' = (data_type :> parser_func) @@ parsers
    /\ last' = [op |-> "register_parser", data_type |-> data_type, ret |-> None]
    /\ UNCHANGED <<stream_timeout, dedup_timeout, streams, seen_packets,
                   completed_streams, stats, history>>

----------------------------------------------------------------------------
(* Inputs *)

Bytes(value) == [pytype |-> "bytes", value |-> value]

\* an argument that is neither bytes nor str
NotBytes == [pytype |-> "int", value |-> 0]

\* create_test_packet, with the declared length and the payload as parameters
MakePacket(company_id, protocol_id, data_type, stream_id, total_packets, sequence, payload_length, payload) ==
    PackU16LE(company_id) \o <<protocol_id, data_type>> \o Zeros(6)
    \o PackU16LE(stream_id) \o <<total_packets, sequence>>
    \o PackU16LE(payload_length) \o payload

\* payloads that differ from one sequence number to the next, of 1 or 2 bytes
PayloadOf(sequence) == [i \in 1..(1 + (sequence % 2)) |-> 16 * sequence + i]

Device == "AA:BB:CC:DD:EE:FF"
TestStreamId == 1000
Times == 0..MaxTime
DataTypes == {DATA_TYPE_CAPTOUCH}
DeclaredLengths == {2}
ShortLengths == {9, 15}

Fragment(data_type, total_packets, sequence, payload_length) ==
    MakePacket(COMPANY_ID, PROTOCOL_ID, data_type, TestStreamId, total_packets,
               sequence, payload_length, PayloadOf(sequence))

\* <<total_packets, sequence>> of the well-formed test packets: a whole
\* message and the two halves of one
FragmentShapes == {<<1, 0>>, <<2, 0>>, <<2, 1>>}

WellFormedPackets ==
    {Fragment(dt, p[1], p[2], plen) :
        dt \in DataTypes, p \in FragmentShapes, plen \in DeclaredLengths}

\* one fragment that carries a whole captouch message
CaptouchPacket ==
    MakePacket(COMPANY_ID, PROTOCOL_ID, DATA_TYPE_CAPTOUCH, TestStreamId, 1, 0,
               CAPTOUCH_BYTES, Zeros(CAPTOUCH_BYTES))

MalformedPackets ==
    {Slice(Fragment(DATA_TYPE_CAPTOUCH, 1, 0, 2), 0, n) : n \in ShortLengths}
    \cup {MakePacket(COMPANY_ID - 1, PROTOCOL_ID, DATA_TYPE_CAPTOUCH, TestStreamId,
                     1, 0, 2, PayloadOf(0)),
          MakePacket(COMPANY_ID, PROTOCOL_ID + 1, DATA_TYPE_CAPTOUCH, TestStreamId,
                     1, 0, 2, PayloadOf(0)),
          MakePacket(COMPANY_ID, PROTOCOL_ID, DATA_TYPE_CAPTOUCH, TestStreamId,
                     1, 1, 2, PayloadOf(1))}

\* a fragment of the same stream whose header carries another type tag,
\* another number of fragments and another declared length
DisagreeingFragment ==
    MakePacket(COMPANY_ID, PROTOCOL_ID, DATA_TYPE_BINARY, TestStreamId, 4, 3,
               3, PayloadOf(3))

FreeInputs ==
    {Bytes(b) : b \in WellFormedPackets \cup MalformedPackets
                        \cup {CaptouchPacket, DisagreeingFragment}}
    \cup {NotBytes}

\* constructor arguments (stream_timeout_seconds, dedup_timeout_seconds)
ConstructorArgs == {<<1, 2>>}

----------------------------------------------------------------------------
(* The receiver used freely through its API.  Every call is stamped with    *)
(* the current time, and time never runs backwards between calls.           *)

Construct(args) ==
    /\ stream_timeout = args[1]
    /\ dedup_timeout = args[2]
    /\ streams = <<>>
    /\ seen_packets = <<>>
    /\ completed_streams = <<>>
    /\ parsers = <<>>
    /\ stats = InitStats
    /\ last = [op |-> "init", ret |-> None]
    /\ history = InitHistory
    /\ clock = 0
    /\ cleanup_thread = None
    /\ cleanup_stop_event = FALSE
    /\ callers = <<>>
    /\ heap = <<>>

Later == {t \in Times : t >= clock}

Init ==
    /\ \E args \in ConstructorArgs : Construct(args)
    /\ driver = [mode |-> "free", calls |-> 0]

ProcessPacketCall ==
    /\ driver.calls < MaxCalls
    /\ \E manufacturer_data \in FreeInputs, timestamp \in Later :
          /\ clock' = timestamp
          /\ process_packet(Device, manufacturer_data, timestamp)
    /\ driver' = [driver EXCEPT !.calls = @ + 1]
    /\ UNCHANGED threading

CleanupCall ==
    /\ \E now \in Later :
          /\ clock' = now
          /\ cleanup(now)
    /\ UNCHANGED <<driver, threading>>

RegisterParserCall ==
    /\ register_parser(DATA_TYPE_CAPTOUCH, "parse_captouch_data")
    /\ UNCHANGED <<clock, driver, threading>>

Next ==
    \/ ProcessPacketCall
    \/ CleanupCall
    \/ RegisterParserCall

Spec == Init /\ [][Next]_vars

----------------------------------------------------------------------------
(* Scenario: F fragments of one stream, each presented R times, in any      *)
(* order, to a fresh receiver that runs no cleanup                          *)
(* (test_4x_retransmission_scenario, test_packets_reassembled_in_order).    *)
(* The calls follow each other within the same second.                      *)

ScenarioLengths == {2, 8}

ScenarioFragment(d, sequence) ==
    MakePacket(COMPANY_ID, PROTOCOL_ID, DATA_TYPE_CAPTOUCH, TestStreamId, d.F,
               sequence, d.payload_length, PayloadOf(sequence))

InitScenario ==
    /\ \E args \in ConstructorArgs : Construct(args)
    /\ \E F \in 1..MaxF, R \in 1..MaxR, payload_length \in ScenarioLengths :
          driver = [mode |-> "scenario", F |-> F, R |-> R,
                    payload_length |-> payload_length,
                    sent |-> [sequence \in 0..(F - 1) |-> 0],
                    returned |-> <<>>]

Present(sequence) ==
    /\ driver.sent[sequence] < driver.R
    /\ process_packet(Device, Bytes(ScenarioFragment(driver, sequence)), clock)
    /\ UNCHANGED <<clock, threading>>
    /\ driver' = [driver EXCEPT !.sent[sequence] = @ + 1,
                                !.returned = IF last'.ret # None
                                             THEN Append(@, last'.ret) ELSE @]

NextScenario == \E sequence \in DOMAIN driver.sent : Present(sequence)

SpecScenario == InitScenario /\ [][NextScenario]_vars

----------------------------------------------------------------------------
(* The fragment decoder alone, applied to one buffer *)

DecoderCompanyIds == {COMPANY_ID, COMPANY_ID - 1, COMPANY_ID - 256}
DecoderProtocolIds == {PROTOCOL_ID, PROTOCOL_ID + 1}
DecoderPayloads == {<<>>, <<7>>, <<8, 9>>}

\* how a test buffer is built: the fields of a packet, cut to its first length bytes
DecoderCases ==
    {c \in [company_id : DecoderCompanyIds, protocol_id : DecoderProtocolIds,
            total_packets : 0..MaxTotal, sequence : 0..MaxTotal,
            payload : DecoderPayloads, length : 0..18] :
        c.length <= 16 + Len(c.payload)}

CaseBuffer(c) ==
    Slice(MakePacket(c.company_id, c.protocol_id, DATA_TYPE_CAPTOUCH, TestStreamId,
                     c.total_packets, c.sequence, CAPTOUCH_BYTES, c.payload),
          0, c.length)

InitDecoder ==
    /\ \E args \in ConstructorArgs : Construct(args)
    /\ \E c \in DecoderCases :
          driver = [mode |-> "decoder", case |-> c, data_bytes |-> CaseBuffer(c),
                    called |-> FALSE, header |-> None]

Decode ==
    /\ ~driver.called
    /\ driver' = [driver EXCEPT !.called = TRUE,
                                !.header = parse_packet_header(driver.data_bytes)]
    /\ UNCHANGED <<stream_timeout, dedup_timeout, streams, seen_packets,
                   completed_streams, parsers, stats, last, history, clock, threading>>

NextDecoder == Decode

SpecDecoder == InitDecoder /\ [][NextDecoder]_vars

----------------------------------------------------------------------------
(* The receiver called with the wider range of arguments: hex strings,      *)
(* whole messages of two types on streams of their own, a device_id that    *)
(* is not hashable, and several parser registrations.  No cleanup runs and  *)
(* the calls follow each other within the same second.                      *)

Str(value) == [pytype |-> "str", value |-> value]

HexDigits == <<"0", "1", "2", "3", "4", "5", "6", "7", "8", "9",
               "a", "b", "c", "d", "e", "f">>

\* b.hex()
ToHex(b) ==
    [i \in 1..(2 * Len(b)) |->
        IF i % 2 = 1
        THEN HexDigits[(b[(i + 1) \div 2] \div 16) + 1]
        ELSE HexDigits[(b[i \div 2] % 16) + 1]]

\* ':'.join of the two-digit hex bytes of b
Separated(b) ==
    [i \in 1..(3 * Len(b) - 1) |->
        LET byte == b[((i - 1) \div 3) + 1]
        IN  CASE (i - 1) % 3 = 0 -> HexDigits[(byte \div 16) + 1]
              [] (i - 1) % 3 = 1 -> HexDigits[(byte % 16) + 1]
              [] OTHER -> ":"]

\* a whole binary message on a stream of its own
BinaryWhole ==
    MakePacket(COMPANY_ID, PROTOCOL_ID, DATA_TYPE_BINARY, TestStreamId + 1, 1, 0,
               2, PayloadOf(0))

\* a whole captouch message of 2 bytes on a stream of its own
HexWhole ==
    MakePacket(COMPANY_ID, PROTOCOL_ID, DATA_TYPE_CAPTOUCH, TestStreamId + 2, 1, 0,
               2, PayloadOf(1))

InputArguments ==
    {Bytes(CaptouchPacket),
     Bytes(Fragment(DATA_TYPE_CAPTOUCH, 1, 0, 2)),
     Bytes(BinaryWhole),
     Str(ToHex(HexWhole)),
     Str(<<"0", "x">> \o Separated(HexWhole)),
     Str(Tail(ToHex(HexWhole))),
     Bytes(Slice(BinaryWhole, 0, 15)),
     NotBytes}

InputDevices == {Device, UnhashableDevice}

\* register_parser arguments (data_type, parser_func)
InputRegistrations ==
    {<<DATA_TYPE_CAPTOUCH, "parse_captouch_data">>,
     <<DATA_TYPE_CAPTOUCH, "custom_parser">>,
     <<DATA_TYPE_BINARY, "custom_parser">>}

InitInputs ==
    /\ \E args \in ConstructorArgs : Construct(args)
    /\ driver = [mode |-> "inputs", calls |-> 0, latest |-> <<>>, replaced |-> {}]

InputsProcessPacket ==
    /\ driver.calls < MaxInputCalls
    /\ \E device_id \in InputDevices, manufacturer_data \in InputArguments :
          process_packet(device_id, manufacturer_data, clock)
    /\ driver' = [driver EXCEPT !.calls = @ + 1]
    /\ UNCHANGED <<clock, threading>>

\* the caller notes its latest registration for each tag, and the tags for
\* which it registered a second, different parser
InputsRegisterParser ==
    /\ \E r \in InputRegistrations :
          /\ register_parser(r[1], r[2])
          /\ driver' = [driver EXCEPT
                           !.latest = (r[1] :> r[2]) @@ @,
                           !.replaced = IF r[1] \in DOMAIN driver.latest
                                           /\ driver.latest[r[1]] # r[2]
                                        THEN @ \cup {r[1]} ELSE @]
    /\ UNCHANGED <<clock, threading>>

NextInputs ==
    \/ InputsProcessPacket
    \/ InputsRegisterParser

SpecInputs == InitInputs /\ [][NextInputs]_vars

----------------------------------------------------------------------------
(* One 2-fragment stream whose fragments carry either type tag in their     *)
(* headers, and a registry that holds a parser for either type.  No cleanup *)
(* runs and the calls follow each other within the same second.             *)

RetaggedTypes == {DATA_TYPE_CAPTOUCH, DATA_TYPE_BINARY}

RetaggedArguments ==
    {Bytes(Fragment(data_type, 2, sequence, 2)) :
        data_type \in RetaggedTypes, sequence \in {0, 1}}

InitRetagged ==
    /\ \E args \in ConstructorArgs : Construct(args)
    /\ driver = [mode |-> "retagged", calls |-> 0]

RetaggedProcessPacket ==
    /\ driver.calls < MaxInputCalls
    /\ \E manufacturer_data \in RetaggedArguments :
          process_packet(Device, manufacturer_data, clock)
    /\ driver' = [driver EXCEPT !.calls = @ + 1]
    /\ UNCHANGED <<clock, threading>>

RetaggedRegisterParser ==
    /\ \E r \in InputRegistrations : register_parser(r[1], r[2])
    /\ UNCHANGED <<clock, driver, threading>>

NextRetagged ==
    \/ RetaggedProcessPacket
    \/ RetaggedRegisterParser

SpecRetagged == InitRetagged /\ [][NextRetagged]_vars

----------------------------------------------------------------------------
(* Several streams: 2-fragment messages of two devices and two stream ids,  *)
(* fed in any order                                                         *)
(* (test_multiple_concurrent_streams, test_different_streams_not_duplicate).*)
(* Every call is stamped with the current time, which never runs backwards. *)

OtherDevice == "11:22:33:44:55:66"
StreamDevices == {Device, OtherDevice}
StreamIds == {TestStreamId, TestStreamId + 1}
StreamSequences == {0, 1}

DeviceNumber(device_id) == IF device_id = Device THEN 1 ELSE 2

\* one byte that names the device, the stream and the sequence it is sent with
StreamPayload(device_id, stream_id, sequence) ==
    <<100 * DeviceNumber(device_id) + 10 * (stream_id - TestStreamId) + sequence>>

StreamFragment(device_id, stream_id, sequence) ==
    MakePacket(COMPANY_ID, PROTOCOL_ID, DATA_TYPE_CAPTOUCH, stream_id, 2, sequence,
               2, StreamPayload(device_id, stream_id, sequence))

\* one call; the caller notes the triples it has presented
PresentFragment(device_id, stream_id, sequence, timestamp) ==
    /\ process_packet(device_id,
                      Bytes(StreamFragment(device_id, stream_id, sequence)),
                      timestamp)
    /\ driver' = [driver EXCEPT
                     !.calls = @ + 1,
                     !.arrived = @ \cup {<<device_id, stream_id, sequence>>}]
    /\ UNCHANGED threading

(* ... within the same second and without cleanup *)

InitStreams ==
    /\ \E args \in ConstructorArgs : Construct(args)
    /\ driver = [mode |-> "streams", calls |-> 0, arrived |-> {}]

StreamsProcessPacket ==
    /\ driver.calls < MaxStreamCalls
    /\ \E device_id \in StreamDevices, stream_id \in StreamIds,
          sequence \in StreamSequences :
          PresentFragment(device_id, stream_id, sequence, clock)
    /\ UNCHANGED clock

NextStreams == StreamsProcessPacket

SpecStreams == InitStreams /\ [][NextStreams]_vars

(* ... with time passing and cleanup runs in between *)

\* (stream_timeout_seconds, dedup_timeout_seconds), the first at most the
\* second as with the defaults 60 and 120
SweepConstructorArgs == {<<1, 1>>, <<1, 2>>, <<2, 2>>}

InitSweep ==
    /\ \E args \in SweepConstructorArgs : Construct(args)
    /\ driver = [mode |-> "sweep", calls |-> 0, arrived |-> {}]

SweepProcessPacket ==
    /\ driver.calls < MaxSweepCalls
    /\ \E device_id \in StreamDevices, stream_id \in StreamIds,
          sequence \in StreamSequences, timestamp \in Later :
          /\ clock' = timestamp
          /\ PresentFragment(device_id, stream_id, sequence, timestamp)

SweepCleanup ==
    /\ \E now \in Later :
          /\ clock' = now
          /\ cleanup(now)
    /\ UNCHANGED <<driver, threading>>

NextSweep ==
    \/ SweepProcessPacket
    \/ SweepCleanup

SpecSweep == InitSweep /\ [][NextSweep]_vars

(* ... of one device, with cleanup runs and with the consumer that takes    *)
(* the completed messages from the queue.  The caller notes the messages    *)
(* process_packet returned and the messages get_completed_stream returned.  *)

InitQueue ==
    /\ \E args \in ConstructorArgs : Construct(args)
    /\ driver = [mode |-> "queue", calls |-> 0, returned |-> <<>>, taken |-> <<>>]

QueueProcessPacket ==
    /\ driver.calls < MaxQueueCalls
    /\ \E stream_id \in StreamIds, sequence \in StreamSequences :
          process_packet(Device, Bytes(StreamFragment(Device, stream_id, sequence)),
                         clock)
    /\ driver' = [driver EXCEPT
                     !.calls = @ + 1,
                     !.returned = IF last'.ret # None THEN Append(@, last'.ret) ELSE @]
    /\ UNCHANGED <<clock, threading>>

QueueCleanup ==
    /\ \E now \in Later :
          /\ clock' = now
          /\ cleanup(now)
    /\ UNCHANGED <<driver, threading>>

QueueGetCompletedStream ==
    /\ get_completed_stream
    /\ driver' = [driver EXCEPT
                     !.taken = IF last'.ret # None THEN Append(@, last'.ret) ELSE @]
    /\ UNCHANGED <<clock, threading>>

NextQueue ==
    \/ QueueProcessPacket
    \/ QueueCleanup
    \/ QueueGetCompletedStream

SpecQueue == InitQueue /\ [][NextQueue]_vars

----------------------------------------------------------------------------
(* parse_captouch_data alone, applied to one byte string *)

CaptouchLengths == {0, 2, 100, 167, 168, 169, 170, 200}
CaptouchFills == 0..7

\* a byte string of n bytes
CaptouchData(n, k) == [i \in 1..n |-> (k * i) % 256]

InitCaptouch ==
    /\ \E args \in ConstructorArgs : Construct(args)
    /\ \E n \in CaptouchLengths, k \in CaptouchFills :
          driver = [mode |-> "captouch", data |-> CaptouchData(n, k),
                    called |-> FALSE, raised |-> FALSE, result |-> None]

ParseCaptouch ==
    /\ ~driver.called
    /\ driver' = [driver EXCEPT
                     !.called = TRUE,
                     !.raised = ParserRaises("parse_captouch_data", driver.data),
                     !.result = IF ParserRaises("parse_captouch_data", driver.data)
                                THEN None
                                ELSE parse_captouch_data(driver.data)]
    /\ UNCHANGED <<stream_timeout, dedup_timeout, streams, seen_packets,
                   completed_streams, parsers, stats, last, history, clock, threading>>

NextCaptouch == ParseCaptouch

SpecCaptouch == InitCaptouch /\ [][NextCaptouch]_vars

----------------------------------------------------------------------------
(* Threads.  process_packet and cleanup take no lock, so calls made by      *)
(* several threads interleave between their accesses to the shared dicts    *)
(* and counters.  One step of a thread is one access to shared state        *)
(* together with the local computation that follows it; `x += 1` on a       *)
(* counter is a read and a later write.  The stream table holds references  *)
(* [ref, pos] to the StreamBuffer objects heap.objects[ref]; pos is the     *)
(* place of the key in the dict's insertion order, which an assignment to   *)
(* an existing key keeps.  heap.seen_order is the insertion order of        *)
(* seen_packets.                                                            *)

ProducerThreads == {1, 2}

ThreadInputs ==
    {Bytes(Fragment(DATA_TYPE_CAPTOUCH, 2, 0, 2)),
     Bytes(Fragment(DATA_TYPE_CAPTOUCH, 2, 1, 2)),
     Bytes(DisagreeingFragment),
     NotBytes}

IdleCaller ==
    [pc |-> "idle", device_id |-> "", manufacturer_data |-> None,
     timestamp |-> 0, header |-> None, stream |-> 0, complete_data |-> None,
     tmp |-> 0]

InitHeap == [objects |-> <<>>, seen_order |-> <<>>]

\* bookkeeping: StreamBuffer object number Len(h.objs) + 1 is constructed
NoteAllocated(h, key, total_packets) ==
    [h EXCEPT !.objs = Append(@, [key |-> key, total_packets |-> total_packets,
                                  timeouts |-> 0, completions |-> 0,
                                  adds |-> <<>>])]

\* bookkeeping: add_packet(sequence, ...) is executed on object ref
NoteAdded(h, ref, sequence) ==
    [h EXCEPT !.objs[ref].adds =
        (sequence :> (IF sequence \in DOMAIN @ THEN @[sequence] + 1 ELSE 1)) @@ @]

\* the call of thread t returns ret
Return(t, ret) ==
    /\ callers' = [callers EXCEPT ![t] = IdleCaller]
    /\ last' = [op |-> "process_packet", thread |-> t,
                device_id |-> callers[t].device_id,
                manufacturer_data |-> callers[t].manufacturer_data,
                timestamp |-> callers[t].timestamp,
                header |-> callers[t].header, ret |-> ret]

Goto(t, pc) == callers' = [callers EXCEPT ![t].pc = pc]

\* line 132, the read of the counter; line 135
CallerEnter(t) ==
    /\ callers[t].pc = "idle"
    /\ driver.calls < driver.budget
    /\ \E manufacturer_data \in ThreadInputs :
          callers' = [callers EXCEPT ![t] =
                         [IdleCaller EXCEPT !.pc = "received_store",
                                            !.device_id = Device,
                                            !.manufacturer_data = manufacturer_data,
                                            !.timestamp = clock,
                                            !.tmp = stats.packets_received]]
    /\ driver' = [driver EXCEPT !.calls = @ + 1]
    /\ UNCHANGED <<stream_timeout, dedup_timeout, streams, seen_packets,
                   completed_streams, parsers, stats, last, history, clock,
                   cleanup_thread, cleanup_stop_event, heap>>

\* line 132, the write of the counter; lines 139-146
CallerStoreReceived(t) ==
    /\ callers[t].pc = "received_store"
    /\ stats' = [stats EXCEPT !.packets_received = callers[t].tmp + 1]
    /\ LET header == HeaderOf(callers[t].manufacturer_data)
       IN  IF header = None
           THEN Return(t, None)
           ELSE /\ callers' = [callers EXCEPT ![t].header = header,
                                              ![t].pc = "duplicate_check"]
                /\ UNCHANGED last
    /\ UNCHANGED <<stream_timeout, dedup_timeout, streams, seen_packets,
                   completed_streams, parsers, history, clock, driver,
                   cleanup_thread, cleanup_stop_event, heap>>

\* line 149, and the read of the counter of line 150
CallerCheckDuplicate(t) ==
    /\ callers[t].pc = "duplicate_check"
    /\ IF is_duplicate(callers[t].device_id, callers[t].header, callers[t].timestamp)
       THEN callers' = [callers EXCEPT ![t].tmp = stats.packets_duplicate,
                                       ![t].pc = "duplicate_store"]
       ELSE Goto(t, "mark_seen")
    /\ UNCHANGED <<stream_timeout, dedup_timeout, streams, seen_packets,
                   completed_streams, parsers, stats, last, history, clock, driver,
                   cleanup_thread, cleanup_stop_event, heap>>

\* line 150, the write of the counter; line 152
CallerStoreDuplicate(t) ==
    /\ callers[t].pc = "duplicate_store"
    /\ stats' = [stats EXCEPT !.packets_duplicate = callers[t].tmp + 1]
    /\ Return(t, None)
    /\ UNCHANGED <<stream_timeout, dedup_timeout, streams, seen_packets,
                   completed_streams, parsers, history, clock, driver,
                   cleanup_thread, cleanup_stop_event, heap>>

\* line 155
CallerMarkSeen(t) ==
    /\ callers[t].pc = "mark_seen"
    /\ seen_packets' = mark_seen(callers[t].device_id, callers[t].header,
                                 callers[t].timestamp)
    /\ heap' = [heap EXCEPT !.seen_order =
                    IF DedupKey(callers[t].device_id, callers[t].header)
                          \in DOMAIN seen_packets
                    THEN @
                    ELSE Append(@, DedupKey(callers[t].device_id, callers[t].header))]
    /\ Goto(t, "lookup")
    /\ UNCHANGED <<stream_timeout, dedup_timeout, streams, completed_streams,
                   parsers, stats, last, history, clock, driver,
                   cleanup_thread, cleanup_stop_event>>

\* line 159
CallerLookup(t) ==
    /\ callers[t].pc = "lookup"
    /\ IF StreamKey(callers[t].device_id, callers[t].header) \in DOMAIN streams
       THEN Goto(t, "fetch")
       ELSE Goto(t, "create")
    /\ UNCHANGED <<stream_timeout, dedup_timeout, streams, seen_packets,
                   completed_streams, parsers, stats, last, history, clock, driver,
                   cleanup_thread, cleanup_stop_event, heap>>

\* lines 160-167
CallerCreate(t) ==
    /\ callers[t].pc = "create"
    /\ LET header == callers[t].header
           stream_key == StreamKey(callers[t].device_id, header)
           ref == Len(heap.objects) + 1
       IN  /\ heap' = [heap EXCEPT !.objects =
                           Append(@, StreamBuffer(callers[t].device_id, header.stream_id,
                                                  header.data_type, header.total_packets,
                                                  header.payload_length,
                                                  callers[t].timestamp))]
           /\ streams' = (stream_key :>
                             [ref |-> ref,
                              pos |-> IF stream_key \in DOMAIN streams
                                      THEN streams[stream_key].pos ELSE ref])
                          @@ streams
           /\ history' = NoteAllocated(history, stream_key, header.total_packets)
    /\ Goto(t, "fetch")
    /\ UNCHANGED <<stream_timeout, dedup_timeout, seen_packets, completed_streams,
                   parsers, stats, last, clock, driver,
                   cleanup_thread, cleanup_stop_event>>

\* line 169; a KeyError is caught at line 205
CallerFetch(t) ==
    /\ callers[t].pc = "fetch"
    /\ LET stream_key == StreamKey(callers[t].device_id, callers[t].header)
       IN  IF stream_key \notin DOMAIN streams
           THEN Return(t, ExceptException("KeyError"))
           ELSE /\ callers' = [callers EXCEPT ![t].stream = streams[stream_key].ref,
                                              ![t].pc = "add_packet"]
                /\ UNCHANGED last
    /\ UNCHANGED <<stream_timeout, dedup_timeout, streams, seen_packets,
                   completed_streams, parsers, stats, history, clock, driver,
                   cleanup_thread, cleanup_stop_event, heap>>

\* line 172
CallerAddPacket(t) ==
    /\ callers[t].pc = "add_packet"
    /\ heap' = [heap EXCEPT !.objects[callers[t].stream] =
                    add_packet(@, callers[t].header.sequence, callers[t].header.payload)]
    /\ history' = NoteAdded(history, callers[t].stream, callers[t].header.sequence)
    /\ Goto(t, "is_complete")
    /\ UNCHANGED <<stream_timeout, dedup_timeout, streams, seen_packets,
                   completed_streams, parsers, stats, last, clock, driver,
                   cleanup_thread, cleanup_stop_event>>

\* line 178; line 203
CallerIsComplete(t) ==
    /\ callers[t].pc = "is_complete"
    /\ IF is_complete(heap.objects[callers[t].stream])
       THEN Goto(t, "get_data") /\ UNCHANGED last
       ELSE Return(t, None)
    /\ UNCHANGED <<stream_timeout, dedup_timeout, streams, seen_packets,
                   completed_streams, parsers, stats, history, clock, driver,
                   cleanup_thread, cleanup_stop_event, heap>>

\* lines 183-191, and the read of the counter of line 192
CallerGetData(t) ==
    /\ callers[t].pc = "get_data"
    /\ LET complete_data == get_data(heap.objects[callers[t].stream])
       IN  IF ParserFails(callers[t].header, complete_data)
           THEN callers' = [callers EXCEPT ![t].complete_data = complete_data,
                                           ![t].tmp = stats.parse_errors,
                                           ![t].pc = "parse_errors_store"]
           ELSE callers' = [callers EXCEPT
                               ![t].complete_data = WithParsed(callers[t].header,
                                                               complete_data),
                               ![t].pc = "delete"]
    /\ UNCHANGED <<stream_timeout, dedup_timeout, streams, seen_packets,
                   completed_streams, parsers, stats, last, history, clock, driver,
                   cleanup_thread, cleanup_stop_event, heap>>

\* line 192, the write of the counter
CallerStoreParseErrors(t) ==
    /\ callers[t].pc = "parse_errors_store"
    /\ stats' = [stats EXCEPT !.parse_errors = callers[t].tmp + 1]
    /\ Goto(t, "delete")
    /\ UNCHANGED <<stream_timeout, dedup_timeout, streams, seen_packets,
                   completed_streams, parsers, last, history, clock, driver,
                   cleanup_thread, cleanup_stop_event, heap>>

\* line 195, where a KeyError is caught at line 205, and the read of the
\* counter of line 196
CallerDelete(t) ==
    /\ callers[t].pc = "delete"
    /\ LET stream_key == StreamKey(callers[t].device_id, callers[t].header)
       IN  IF stream_key \notin DOMAIN streams
           THEN /\ Return(t, ExceptException("KeyError"))
                /\ UNCHANGED streams
           ELSE /\ streams' = RemoveKeys(streams, {stream_key})
                /\ callers' = [callers EXCEPT ![t].tmp = stats.streams_completed,
                                              ![t].pc = "completed_store"]
                /\ UNCHANGED last
    /\ UNCHANGED <<stream_timeout, dedup_timeout, seen_packets,
                   completed_streams, parsers, stats, history, clock, driver,
                   cleanup_thread, cleanup_stop_event, heap>>

\* line 196, the write of the counter; lines 199-201
CallerStoreCompleted(t) ==
    /\ callers[t].pc = "completed_store"
    /\ stats' = [stats EXCEPT !.streams_completed = callers[t].tmp + 1]
    /\ completed_streams' = Append(completed_streams, callers[t].complete_data)
    /\ history' = [history EXCEPT !.objs[callers[t].stream].completions = @ + 1]
    /\ Return(t, callers[t].complete_data)
    /\ UNCHANGED <<stream_timeout, dedup_timeout, streams, seen_packets,
                   parsers, clock, driver, cleanup_thread, cleanup_stop_event, heap>>

CallerStep(t) ==
    \/ CallerEnter(t)
    \/ CallerStoreReceived(t)
    \/ CallerCheckDuplicate(t)
    \/ CallerStoreDuplicate(t)
    \/ CallerMarkSeen(t)
    \/ CallerLookup(t)
    \/ CallerCreate(t)
    \/ CallerFetch(t)
    \/ CallerAddPacket(t)
    \/ CallerIsComplete(t)
    \/ CallerGetData(t)
    \/ CallerStoreParseErrors(t)
    \/ CallerDelete(t)
    \/ CallerStoreCompleted(t)

\* the thread started by _start_cleanup_thread, about to run _cleanup_loop
CleanupThread(interval_seconds) ==
    [pc |-> "test", interval |-> interval_seconds, now |-> 0,
     used |-> 0, cursor |-> 0, len |-> 0, todo |-> <<>>, to_remove |-> <<>>,
     visiting |-> 0, tmp |-> 0, wait_until |-> 0, exc |-> ""]

\* Thread.is_alive()
IsAlive(thread) == thread.pc \notin {"done", "crashed"}

\* an exception leaves _cleanup_loop, which has no handler: the thread ends
GcRaise(exc) == cleanup_thread' = [cleanup_thread EXCEPT !.pc = "crashed", !.exc = exc]

\* a loop that never looks at the event
GcTestIgnoringEvent ==
    /\ cleanup_thread.pc = "test"
    /\ cleanup_thread' = [cleanup_thread EXCEPT !.pc = "cleanup"]
    /\ UNCHANGED <<stream_timeout, dedup_timeout, streams, seen_packets,
                   completed_streams, parsers, stats, last, history, clock, driver,
                   cleanup_stop_event, callers, heap>>

\* line 104
GcTest ==
    /\ cleanup_thread.pc = "test"
    /\ cleanup_thread' = [cleanup_thread EXCEPT
                             !.pc = IF cleanup_stop_event THEN "done" ELSE "cleanup"]
    /\ UNCHANGED <<stream_timeout, dedup_timeout, streams, seen_packets,
                   completed_streams, parsers, stats, last, history, clock, driver,
                   cleanup_stop_event, callers, heap>>

\* line 105, lines 214-219: cleanup() reads the clock and starts to iterate
\* over self.streams.items()
GcCleanup ==
    /\ cleanup_thread.pc = "cleanup"
    /\ cleanup_thread' = [cleanup_thread EXCEPT
                             !.pc = "streams_next",
                             !.now = clock,
                             !.used = Cardinality(DOMAIN streams),
                             !.len = Cardinality(DOMAIN streams),
                             !.cursor = 0,
                             !.to_remove = <<>>]
    /\ UNCHANGED <<stream_timeout, dedup_timeout, streams, seen_packets,
                   completed_streams, parsers, stats, last, history, clock, driver,
                   cleanup_stop_event, callers, heap>>

\* lines 219-224: the dict iterator raises RuntimeError when the size of the
\* dict changed, or when it finds an entry after having yielded as many as
\* the dict held at the start; otherwise it yields the next entry in
\* insertion order.  The read of the counter of line 224 is part of the step.
GcStreamsNext ==
    /\ cleanup_thread.pc = "streams_next"
    /\ LET ahead == {k \in DOMAIN streams : streams[k].pos > cleanup_thread.cursor}
           key == CHOOSE k \in ahead : \A j \in ahead : streams[k].pos <= streams[j].pos
           stream == heap.objects[streams[key].ref]
       IN  IF Cardinality(DOMAIN streams) # cleanup_thread.used
           THEN GcRaise("RuntimeError")
           ELSE IF ahead = {}
           THEN cleanup_thread' = [cleanup_thread EXCEPT !.pc = "streams_delete"]
           ELSE IF cleanup_thread.len = 0
           THEN GcRaise("RuntimeError")
           ELSE IF cleanup_thread.now - stream.first_packet_time > stream_timeout
           THEN cleanup_thread' = [cleanup_thread EXCEPT
                                      !.cursor = streams[key].pos,
                                      !.len = @ - 1,
                                      !.to_remove = Append(@, key),
                                      !.visiting = streams[key].ref,
                                      !.tmp = stats.streams_timeout,
                                      !.pc = "timeout_store"]
           ELSE cleanup_thread' = [cleanup_thread EXCEPT
                                      !.cursor = streams[key].pos,
                                      !.len = @ - 1]
    /\ UNCHANGED <<stream_timeout, dedup_timeout, streams, seen_packets,
                   completed_streams, parsers, stats, last, history, clock, driver,
                   cleanup_stop_event, callers, heap>>

\* line 224, the write of the counter
GcStoreTimeout ==
    /\ cleanup_thread.pc = "timeout_store"
    /\ stats' = [stats EXCEPT !.streams_timeout = cleanup_thread.tmp + 1]
    /\ history' = [history EXCEPT !.objs[cleanup_thread.visiting].timeouts = @ + 1]
    /\ cleanup_thread' = [cleanup_thread EXCEPT !.pc = "streams_next"]
    /\ UNCHANGED <<stream_timeout, dedup_timeout, streams, seen_packets,
                   completed_streams, parsers, last, clock, driver,
                   cleanup_stop_event, callers, heap>>

\* lines 226-231: one `del self.streams[key]` (KeyError when the key is
\* gone), or, after the last one, the start of the iteration over
\* self.seen_packets.items()
GcStreamsDelete ==
    /\ cleanup_thread.pc = "streams_delete"
    /\ IF cleanup_thread.to_remove = <<>>
       THEN /\ cleanup_thread' = [cleanup_thread EXCEPT
                                     !.pc = "seen_next",
                                     !.used = Cardinality(DOMAIN seen_packets),
                                     !.todo = heap.seen_order]
            /\ UNCHANGED streams
       ELSE IF Head(cleanup_thread.to_remove) \notin DOMAIN streams
       THEN GcRaise("KeyError") /\ UNCHANGED streams
       ELSE /\ streams' = RemoveKeys(streams, {Head(cleanup_thread.to_remove)})
            /\ cleanup_thread' = [cleanup_thread EXCEPT !.to_remove = Tail(@)]
    /\ UNCHANGED <<stream_timeout, dedup_timeout, seen_packets,
                   completed_streams, parsers, stats, last, history, clock, driver,
                   cleanup_stop_event, callers, heap>>

\* lines 231-233: entries are only added to seen_packets while the loop
\* runs, and an added entry changes the size: RuntimeError
GcSeenNext ==
    /\ cleanup_thread.pc = "seen_next"
    /\ IF Cardinality(DOMAIN seen_packets) # cleanup_thread.used
       THEN GcRaise("RuntimeError")
       ELSE IF cleanup_thread.todo = <<>>
       THEN cleanup_thread' = [cleanup_thread EXCEPT !.pc = "seen_delete"]
       ELSE LET key == Head(cleanup_thread.todo)
            IN  cleanup_thread' = [cleanup_thread EXCEPT
                   !.todo = Tail(@),
                   !.to_remove =
                       IF cleanup_thread.now - seen_packets[key] > dedup_timeout
                       THEN Append(@, key) ELSE @]
    /\ UNCHANGED <<stream_timeout, dedup_timeout, streams, seen_packets,
                   completed_streams, parsers, stats, last, history, clock, driver,
                   cleanup_stop_event, callers, heap>>

\* lines 235-238: one `del self.seen_packets[key]`, or, after the last one,
\* the return of cleanup() and the start of the wait of line 106
GcSeenDelete ==
    /\ cleanup_thread.pc = "seen_delete"
    /\ IF cleanup_thread.to_remove = <<>>
       THEN /\ cleanup_thread' = [CleanupThread(cleanup_thread.interval) EXCEPT
                                     !.pc = "wait",
                                     !.wait_until = clock + cleanup_thread.interval]
            /\ UNCHANGED <<seen_packets, heap>>
       ELSE IF Head(cleanup_thread.to_remove) \notin DOMAIN seen_packets
       THEN GcRaise("KeyError") /\ UNCHANGED <<seen_packets, heap>>
       ELSE LET key == Head(cleanup_thread.to_remove)
                Other(k) == k # key
            IN  /\ seen_packets' = RemoveKeys(seen_packets, {key})
                /\ heap' = [heap EXCEPT !.seen_order = SelectSeq(@, Other)]
                /\ cleanup_thread' = [cleanup_thread EXCEPT !.to_remove = Tail(@)]
    /\ UNCHANGED <<stream_timeout, dedup_timeout, streams,
                   completed_streams, parsers, stats, last, history, clock, driver,
                   cleanup_stop_event, callers>>

\* line 106: Event.wait(interval_seconds) returns when the event is set or
\* the interval has passed
GcWait ==
    /\ cleanup_thread.pc = "wait"
    /\ cleanup_stop_event \/ clock >= cleanup_thread.wait_until
    /\ cleanup_thread' = [cleanup_thread EXCEPT !.pc = "test", !.wait_until = 0]
    /\ UNCHANGED <<stream_timeout, dedup_timeout, streams, seen_packets,
                   completed_streams, parsers, stats, last, history, clock, driver,
                   cleanup_stop_event, callers, heap>>

GcStep ==
    \/ GcTest
    \/ GcCleanup
    \/ GcStreamsNext
    \/ GcStoreTimeout
    \/ GcStreamsDelete
    \/ GcSeenNext
    \/ GcSeenDelete
    \/ GcWait

\* stop(): sets the event when the thread is alive; join(timeout=5) returns
\* after at most 5 seconds, whether the thread has ended or not
stop ==
    /\ IsAlive(cleanup_thread)
    /\ cleanup_stop_event' = TRUE
    /\ UNCHANGED <<stream_timeout, dedup_timeout, streams, seen_packets,
                   completed_streams, parsers, stats, last, history, clock, driver,
                   cleanup_thread, callers, heap>>

\* a second passes
TickTo(limit) ==
    /\ clock < limit
    /\ clock' = clock + 1
    /\ UNCHANGED <<stream_timeout, dedup_timeout, streams, seen_packets,
                   completed_streams, parsers, stats, last, history, driver,
                   cleanup_thread, cleanup_stop_event, callers, heap>>

Tick == TickTo(MaxTime)

\* the receiver as gateway_integration_example.py sets it up: constructed,
\* then the captouch parser registered; threads then call process_packet
ConstructThreaded(args, thread, threads, budget) ==
    /\ stream_timeout = args[1]
    /\ dedup_timeout = args[2]
    /\ streams = <<>>
    /\ seen_packets = <<>>
    /\ completed_streams = <<>>
    /\ parsers = (DATA_TYPE_CAPTOUCH :> "parse_captouch_data")
    /\ stats = InitStats
    /\ last = [op |-> "init", ret |-> None]
    /\ history = InitHistory
    /\ clock = 0
    /\ cleanup_thread = thread
    /\ cleanup_stop_event = FALSE
    /\ callers = [t \in threads |-> IdleCaller]
    /\ heap = InitHeap
    /\ driver = [mode |-> "threads", calls |-> 0, budget |-> budget]

(* Two producer threads, auto_cleanup=False *)

InitProducers ==
    \E args \in ConstructorArgs :
        ConstructThreaded(args, None, ProducerThreads, MaxThreadCalls)

NextProducers == \E t \in DOMAIN callers : CallerStep(t)

SpecProducers == InitProducers /\ [][NextProducers]_vars

(* One producer thread and the cleanup thread, which runs every second *)

InitCleanupThread ==
    \E args \in ConstructorArgs :
        ConstructThreaded(args, CleanupThread(1), {1}, MaxSweptCalls)

NextCleanupThread ==
    \/ \E t \in DOMAIN callers : CallerStep(t)
    \/ GcStep
    \/ stop
    \/ Tick

SpecCleanupThread == InitCleanupThread /\ [][NextCleanupThread]_vars

(* The same with stop() under a fair scheduler: the interpreter switches    *)
(* threads every few milliseconds, so the cleanup thread, whenever it can   *)
(* take a step, is given the chance to take it.  Nothing obliges the        *)
(* producer, the caller of stop() or the clock to go on.                    *)

InitStop ==
    \E args \in ConstructorArgs :
        ConstructThreaded(args, CleanupThread(1), {1}, MaxStopCalls)

NextStop ==
    \/ \E t \in DOMAIN callers : CallerStep(t)
    \/ GcStep
    \/ stop
    \/ TickTo(MaxStopTime)

SpecStop == InitStop /\ [][NextStop]_vars /\ WF_vars(GcStep)

----------------------------------------------------------------------------
(* Steps, as seen from the two states of a transition *)

\* the step is a call of process_packet; last' holds its arguments and result
ProcessStep ==
    /\ last'.op = "process_packet"
    /\ stats'.packets_received = stats.packets_received + 1

\* the step is a call of cleanup that changed something; last'.now is its argument
CleanupStep == last'.op = "cleanup"

\* the dedup key of process_packet's argument, decoded
StepKey == DedupKey(last'.device_id, last'.header)

StepDecodes == last'.header # None

----------------------------------------------------------------------------
(* C1: once a fragment with key (device, stream, sequence) is accepted, the *)
(* key is in seen_packets, it leaves seen_packets only in a cleanup run,    *)
(* and every process_packet call that carries a key present in seen_packets *)
(* returns None, adds exactly 1 to packets_duplicate and leaves the stream  *)
(* table and the completed messages untouched.                              *)
C1_DuplicateRejected ==
    [][/\ (ProcessStep /\ StepDecodes /\ StepKey \in DOMAIN seen_packets)
            => /\ last'.ret = None
               /\ stats'.packets_duplicate = stats.packets_duplicate + 1
               /\ stats'.streams_completed = stats.streams_completed
               /\ streams' = streams
               /\ completed_streams' = completed_streams
       /\ (ProcessStep /\ StepDecodes /\ StepKey \notin DOMAIN seen_packets)
            => /\ StepKey \in DOMAIN seen_packets'
               /\ stats'.packets_duplicate = stats.packets_duplicate
       /\ (\E key \in DOMAIN seen_packets : key \notin DOMAIN seen_packets')
            => CleanupStep
      ]_vars

\* the second call presents the fragment of the first again, while the
\* stream that holds it is still being assembled
C1_Witness ==
    /\ last.op = "process_packet"
    /\ last.header # None
    /\ stats.packets_received = 2
    /\ stats.packets_duplicate = 1
    /\ last.ret = None
    /\ DedupKey(last.device_id, last.header) \in DOMAIN seen_packets
    /\ DOMAIN streams # {}

----------------------------------------------------------------------------
(* C2: when each of the F fragments (sequences 0..F-1, totalFragments = F)  *)
(* has been presented R times to a fresh receiver, in whatever order and    *)
(* with no cleanup, packets_received = F*R, packets_duplicate = F*(R-1),    *)
(* streams_completed = 1, and exactly one call returned a CompletedMessage, *)
(* whose packets_received field is F.                                       *)
AllPresented == \A sequence \in DOMAIN driver.sent : driver.sent[sequence] = driver.R

C2_RetransmissionCounts ==
    AllPresented =>
        /\ stats.packets_received = driver.F * driver.R
        /\ stats.packets_duplicate = driver.F * (driver.R - 1)
        /\ stats.streams_completed = 1
        /\ Len(driver.returned) = 1
        /\ driver.returned[1].packets_received = driver.F

\* all presentations made, the last of them a retransmission that arrived
\* after the stream had completed
C2_Witness ==
    /\ AllPresented
    /\ driver.F >= 2
    /\ driver.R >= 2
    /\ last.ret = None
    /\ stats.streams_completed = 1
    /\ Len(driver.returned) = 1

----------------------------------------------------------------------------
(* C3: whatever the order in which the fragments of the scenario arrive,    *)
(* the data of the CompletedMessage is the same: the payloads of sequence   *)
(* 0, 1, ..., F-1 in that order, cut to the declared length (see C6).       *)
RECURSIVE PayloadsUpTo(_)
PayloadsUpTo(n) == IF n = 0 THEN <<>> ELSE PayloadsUpTo(n - 1) \o PayloadOf(n - 1)

ScenarioData ==
    SubSeq(PayloadsUpTo(driver.F), 1, Min(Len(PayloadsUpTo(driver.F)), driver.payload_length))

C3_OrderIndependent ==
    \A i \in DOMAIN driver.returned : driver.returned[i].data = ScenarioData

\* the stream completes on its fragment 0, so the others arrived before it
C3_Witness ==
    /\ driver.F >= 3
    /\ last.ret # None
    /\ last.header.sequence = 0
    /\ driver.returned = <<last.ret>>
    /\ last.ret.data = ScenarioData

----------------------------------------------------------------------------
(* C4: a cleanup(now) run removes every incomplete stream whose age         *)
(* now - first_packet_time exceeds stream_timeout and adds 1 to             *)
(* streams_timeout for each of them; no StreamBuffer is ever counted in     *)
(* streams_timeout more than once.                                          *)
Incomplete(stream) == Cardinality(DOMAIN stream.packets) < stream.total_packets

\* the incomplete streams that are older than stream_timeout at time now
Overdue(now) ==
    {key \in DOMAIN streams :
        /\ Incomplete(streams[key])
        /\ now - streams[key].first_packet_time > stream_timeout}

C4_TimeoutOnce ==
    /\ [](\A u \in DOMAIN history.objs : history.objs[u].timeouts <= 1)
    /\ [][CleanupStep =>
            /\ \A key \in Overdue(last'.now) :
                  /\ key \notin DOMAIN streams'
                  /\ history'.objs[history.active[key]].timeouts = 1
            /\ stats'.streams_timeout >= stats.streams_timeout + Cardinality(Overdue(last'.now))
         ]_vars

\* a cleanup run has just evicted the only stream, which held 1 of 2 fragments
C4_Witness ==
    /\ last.op = "cleanup"
    /\ stats.streams_timeout = 1
    /\ stats.streams_completed = 0
    /\ streams = <<>>
    /\ Len(history.objs) = 1
    /\ history.objs[1].timeouts = 1
    /\ seen_packets # <<>>

----------------------------------------------------------------------------
(* C5 as stated: once an incomplete stream has been removed for timeout, no *)
(* CompletedMessage is ever returned for that stream, i.e. for its          *)
(* (device, stream) key and its number of fragments.                        *)
TimedOut == {u \in DOMAIN history.objs : history.objs[u].timeouts > 0}

C5_NoMessageForTimedOutStream ==
    (last.op = "process_packet" /\ last.ret # None)
        => ~\E u \in TimedOut :
              /\ history.objs[u].key = <<last.ret.device_id, last.ret.stream_id>>
              /\ history.objs[u].total_packets = last.ret.packets_expected

(* C5 amended: a StreamBuffer that was removed for timeout is never         *)
(* delivered: no CompletedMessage is built from it.  (A later message for   *)
(* the same key comes from a new StreamBuffer: see C5_Witness.)             *)
C5_EvictedBufferNeverDelivered ==
    \A u \in TimedOut : history.objs[u].completions = 0

\* a message has just been returned for a key whose first StreamBuffer was
\* evicted for timeout
C5_Witness ==
    /\ last.op = "process_packet"
    /\ last.ret # None
    /\ Len(history.objs) = 2
    /\ history.objs[1].timeouts = 1
    /\ history.objs[2].completions = 1
    /\ history.objs[1].key = history.objs[2].key
    /\ history.objs[1].total_packets = history.objs[2].total_packets

----------------------------------------------------------------------------
(* C6: every CompletedMessage has length = len(data) <= expected_length,    *)
(* the declared length of its stream; data is the first expected_length     *)
(* bytes of the stored payloads taken in ascending sequence order when they *)
(* are longer than that, and all of them (no padding) otherwise.            *)

\* the stream under the key of the step's fragment, with that fragment stored
StepHeader == last'.header
StepStreamKey == StreamKey(last'.device_id, StepHeader)

StepDeclaredLength ==
    IF StepStreamKey \in DOMAIN streams
    THEN streams[StepStreamKey].payload_length
    ELSE StepHeader.payload_length

StepTotal ==
    IF StepStreamKey \in DOMAIN streams
    THEN streams[StepStreamKey].total_packets
    ELSE StepHeader.total_packets

StepStored ==
    (StepHeader.sequence :> StepHeader.payload)
    @@ (IF StepStreamKey \in DOMAIN streams THEN streams[StepStreamKey].packets ELSE <<>>)

RECURSIVE Ascending(_, _)
\* the payloads of the map stored, lowest not yet taken sequence number first
Ascending(stored, todo) ==
    IF todo = {} THEN <<>>
    ELSE LET lowest == CHOOSE n \in todo : \A m \in todo : n <= m
         IN  stored[lowest] \o Ascending(stored, todo \ {lowest})

\* the stored payloads with sequence number below total, in ascending order
StepPayloads == Ascending(StepStored, {n \in DOMAIN StepStored : n < StepTotal})

C6_LengthNeverExceedsDeclared ==
    [][(ProcessStep /\ last'.ret # None) =>
          /\ last'.ret.length = Len(last'.ret.data)
          /\ last'.ret.expected_length = StepDeclaredLength
          /\ last'.ret.length <= last'.ret.expected_length
          /\ IF Len(StepPayloads) > StepDeclaredLength
             THEN last'.ret.data = SubSeq(StepPayloads, 1, StepDeclaredLength)
             ELSE last'.ret.data = StepPayloads
      ]_vars

\* a message whose two fragments carry 3 bytes, cut to the declared 2
C6_Witness ==
    /\ last.op = "process_packet"
    /\ last.ret # None
    /\ last.ret.packets_received = 2
    /\ last.ret.expected_length = 2
    /\ last.ret.length = 2
    /\ Len(PayloadOf(0) \o PayloadOf(1)) = 3

----------------------------------------------------------------------------
(* C7: a process_packet call whose argument does not decode to a fragment   *)
(* (too short, wrong company id, wrong protocol id, sequence >= total, or   *)
(* not a byte string) returns None and changes only packets_received, by 1. *)
C7_MalformedOnlyCounted ==
    [][(ProcessStep /\ ~StepDecodes) =>
          /\ last'.ret = None
          /\ stats' = [stats EXCEPT !.packets_received = @ + 1]
          /\ streams' = streams
          /\ seen_packets' = seen_packets
          /\ completed_streams' = completed_streams
          /\ parsers' = parsers
      ]_vars

\* a 15-byte buffer is presented while a stream is being assembled
C7_Witness ==
    /\ last.op = "process_packet"
    /\ last.manufacturer_data.pytype = "bytes"
    /\ Len(last.manufacturer_data.value) = 15
    /\ last.header = None
    /\ last.ret = None
    /\ stats.packets_received = 2
    /\ stats.packets_duplicate = 0
    /\ DOMAIN streams # {}
    /\ DOMAIN seen_packets # {}

----------------------------------------------------------------------------
(* C8: the decoder returns None for every buffer shorter than 16 bytes      *)
(* (lengths 10 to 15 included), for a company id other than 0xFFE5, a       *)
(* protocol id other than 0xAA, or sequence >= total_packets; every other   *)
(* buffer is accepted, with the fields that were packed into it and with    *)
(* payload = the bytes from offset 16 on.                                   *)
HeaderSize == 16

CaseRejected(c) ==
    \/ c.length < HeaderSize
    \/ c.company_id # COMPANY_ID
    \/ c.protocol_id # PROTOCOL_ID
    \/ c.sequence >= c.total_packets

----------------------------------------------------------------------------
(* C9: when a call stores the last missing fragment of a stream and the     *)
(* decoder registered for the fragment's type fails on the reassembled      *)
(* bytes, the call still returns the CompletedMessage, without a "parsed"   *)
(* field; parse_errors and streams_completed each grow by exactly 1 and the *)
(* stream leaves the table.                                                 *)
StepAccepted == StepDecodes /\ StepKey \notin DOMAIN seen_packets

StepCompletes == Cardinality(DOMAIN StepStored) = StepTotal

StepData ==
    IF Len(StepPayloads) > StepDeclaredLength
    THEN SubSeq(StepPayloads, 1, StepDeclaredLength)
    ELSE StepPayloads

\* parse_captouch_data is registered for the fragment's type and rejects data
StepDecoderFails ==
    /\ StepHeader.data_type \in DOMAIN parsers
    /\ parsers[StepHeader.data_type] = "parse_captouch_data"
    /\ Len(StepData) < CAPTOUCH_BYTES

C9_DecodeFailureStillDelivers ==
    [][(ProcessStep /\ StepAccepted /\ StepCompletes /\ StepDecoderFails) =>
          /\ last'.ret # None
          /\ "parsed" \notin DOMAIN last'.ret
          /\ last'.ret.data = StepData
          /\ stats'.parse_errors = stats.parse_errors + 1
          /\ stats'.streams_completed = stats.streams_completed + 1
          /\ StepStreamKey \notin DOMAIN streams'
          /\ completed_streams' = Append(completed_streams, last'.ret)
      ]_vars

\* a 2-fragment captouch stream has completed with 2 bytes, which the
\* registered parse_captouch_data rejects
C9_Witness ==
    /\ last.op = "process_packet"
    /\ last.ret # None
    /\ DATA_TYPE_CAPTOUCH \in DOMAIN parsers
    /\ last.ret.data_type = DATA_TYPE_CAPTOUCH
    /\ last.ret.packets_received = 2
    /\ "parsed" \notin DOMAIN last.ret
    /\ stats.parse_errors = 1
    /\ stats.streams_completed = 1
    /\ streams = <<>>

----------------------------------------------------------------------------
(* C10: a process_packet call returns a CompletedMessage exactly when the   *)
(* fragment it accepts brings the number of distinct stored sequences of    *)
(* its stream to the stream's total_packets; that call removes the stream   *)
(* from the table, adds exactly 1 to streams_completed, delivers the        *)
(* StreamBuffer once, and the message has packets_received =                *)
(* packets_expected.  Any other call leaves streams_completed unchanged.    *)
C10_CompletesExactlyWhenFull ==
    [][ProcessStep =>
          /\ (last'.ret # None) <=> (StepAccepted /\ StepCompletes)
          /\ (last'.ret # None) =>
                /\ StepStreamKey \notin DOMAIN streams'
                /\ stats'.streams_completed = stats.streams_completed + 1
                /\ last'.ret.packets_expected = StepTotal
                /\ last'.ret.packets_received = last'.ret.packets_expected
                /\ completed_streams' = Append(completed_streams, last'.ret)
                /\ \E u \in DOMAIN history'.objs :
                      /\ history'.objs[u].completions = 1
                      /\ (u \in DOMAIN history.objs => history.objs[u].completions = 0)
                      /\ \A v \in DOMAIN history.objs \ {u} :
                            history'.objs[v] = history.objs[v]
          /\ (last'.ret = None) =>
                /\ stats'.streams_completed = stats.streams_completed
                /\ completed_streams' = completed_streams
      ]_vars

\* the second fragment of a 2-fragment stream has just completed it
C10_Witness ==
    /\ last.op = "process_packet"
    /\ last.ret # None
    /\ last.ret.packets_expected = 2
    /\ last.ret.packets_received = 2
    /\ stats.packets_received = 2
    /\ stats.streams_completed = 1
    /\ streams = <<>>
    /\ Len(completed_streams) = 1

----------------------------------------------------------------------------
(* C18: every process_packet call adds exactly 1 to packets_received,       *)
(* whether the input is malformed, a duplicate, accepted or completing, so  *)
(* after n calls packets_received = n.                                      *)
CallStep == driver'.calls = driver.calls + 1

C18_ReceivedCountsCalls ==
    /\ [](stats.packets_received = driver.calls)
    /\ [][CallStep => stats'.packets_received = stats.packets_received + 1]_vars

\* three calls: one completed a stream, one was a duplicate, the last one
\* was malformed
C18_Witness ==
    /\ driver.calls = 3
    /\ stats.packets_received = 3
    /\ stats.streams_completed = 1
    /\ stats.packets_duplicate = 1
    /\ last.op = "process_packet"
    /\ last.header = None

----------------------------------------------------------------------------
(* C16: data_type, total_packets, payload_length and first_packet_time of a *)
(* StreamBuffer are those of the fragment and the call that created it, and *)
(* no later step changes them while the stream is in the table, whatever    *)
(* the headers and timestamps of the later fragments; stream_timeout does   *)
(* not change either, so the deadline first_packet_time + stream_timeout    *)
(* of a stream is fixed at its creation.                                    *)
Seed(stream) ==
    <<stream.data_type, stream.total_packets, stream.payload_length,
      stream.first_packet_time>>

HeaderSeed(header, timestamp) ==
    <<header.data_type, header.total_packets, header.payload_length, timestamp>>

C16_SeedNeverChanges ==
    [][/\ \A key \in DOMAIN streams \cap DOMAIN streams' :
             Seed(streams'[key]) = Seed(streams[key])
       /\ stream_timeout' = stream_timeout
       /\ \A key \in DOMAIN streams' \ DOMAIN streams :
             /\ ProcessStep
             /\ key = StepStreamKey
             /\ Seed(streams'[key]) = HeaderSeed(StepHeader, last'.timestamp)
       /\ (ProcessStep /\ last'.ret # None /\ StepStreamKey \in DOMAIN streams) =>
             /\ last'.ret.data_type = streams[StepStreamKey].data_type
             /\ last'.ret.packets_expected = streams[StepStreamKey].total_packets
             /\ last'.ret.expected_length = streams[StepStreamKey].payload_length
             /\ last'.ret.timestamp = Isoformat(streams[StepStreamKey].first_packet_time)
      ]_vars

\* the stream holds a fragment that arrived later than the first and whose
\* header disagrees with the seed on type, number of fragments and length
C16_Witness ==
    /\ last.op = "process_packet"
    /\ last.header # None
    /\ last.ret = None
    /\ StreamKey(last.device_id, last.header) \in DOMAIN streams
    /\ LET stream == streams[StreamKey(last.device_id, last.header)]
       IN  /\ last.header.sequence \in DOMAIN stream.packets
           /\ Cardinality(DOMAIN stream.packets) = 2
           /\ stream.data_type # last.header.data_type
           /\ stream.total_packets # last.header.total_packets
           /\ stream.payload_length # last.header.payload_length
           /\ stream.first_packet_time < last.timestamp

----------------------------------------------------------------------------
(* C17 as stated: every CompletedMessage returned by process_packet has     *)
(* complete = TRUE and an empty missing_packets list, also when fragments   *)
(* of the stream declare another total_packets than its first fragment.     *)
C17_DeliveredMeansComplete ==
    (last.op = "process_packet" /\ last.ret # None)
        => /\ last.ret.complete
           /\ last.ret.missing_packets = <<>>

----------------------------------------------------------------------------
(* C15 as stated: parse_captouch_data raises for every input whose length   *)
(* is not exactly 168 bytes, shorter or longer, and returns a result only   *)
(* for 168-byte inputs, which it splits into 8, 8, 34 and 34 samples.       *)
C15_ExactLengthOnly ==
    driver.called =>
        /\ driver.raised <=> (Len(driver.data) # CAPTOUCH_BYTES)
        /\ ~driver.raised =>
              /\ Len(driver.result.vdd_ref) = 8
              /\ Len(driver.result.gnd_ref) = 8
              /\ Len(driver.result.self_cap_raw) = 34
              /\ Len(driver.result.mutual_cap_raw) = 34

----------------------------------------------------------------------------
(* C14: process_packet never raises: whatever the arguments (bytes that do  *)
(* not decode, a hex string that does not parse, an object of another type, *)
(* a duplicate, a parser that raises, a device_id that raises inside the    *)
(* dedup check), the call returns None or a CompletedMessage.               *)
IsMessage(ret) == "data" \in DOMAIN ret /\ "tag" \notin DOMAIN ret

C14_NeverRaises ==
    [][CallStep =>
          /\ last'.op = "process_packet"
          /\ last'.ret = None \/ IsMessage(last'.ret)
      ]_vars

\* the first call delivered a message whose parser raised, the second one
\* raised TypeError inside the try block and returned None
C14_Witness ==
    /\ driver.calls = 2
    /\ stats.parse_errors = 1
    /\ stats.streams_completed = 1
    /\ last.op = "process_packet"
    /\ last.device_id = UnhashableDevice
    /\ last.header # None
    /\ last.ret = None

----------------------------------------------------------------------------
(* C19: the registry holds one parser per tag, the one registered last: a   *)
(* registration replaces the tag's parser and leaves the other tags alone,  *)
(* and a stream that completes is decoded by the parser registered last for *)
(* its tag and by no other (by none when the tag has no registration).      *)
C19_LatestRegistrationDecodes ==
    [][/\ parsers' = driver'.latest
       /\ (last'.op = "register_parser" /\ driver'.calls = driver.calls) =>
             \A tag \in DOMAIN parsers \ {last'.data_type} :
                 tag \in DOMAIN parsers' /\ parsers'[tag] = parsers[tag]
       /\ (CallStep /\ IsMessage(last'.ret)) =>
             LET tag == last'.ret.data_type
                 ret == last'.ret
             IN  IF tag \notin DOMAIN driver.latest
                 THEN "parsed" \notin DOMAIN ret
                 ELSE IF driver.latest[tag] = "custom_parser"
                 THEN /\ "parsed" \in DOMAIN ret
                      /\ ret.parsed = [length |-> Len(ret.data)]
                 ELSE /\ "parsed" \in DOMAIN ret <=> Len(ret.data) >= CAPTOUCH_BYTES
                      /\ "parsed" \in DOMAIN ret =>
                            /\ "total_samples" \in DOMAIN ret.parsed
                            /\ ret.parsed.total_samples = CAPTOUCH_SAMPLES
      ]_vars

\* the captouch tag was registered with parse_captouch_data and then with
\* the caller's parser, the binary tag has a parser too, and a 168-byte
\* captouch message has been decoded by the caller's parser
C19_Witness ==
    /\ DATA_TYPE_CAPTOUCH \in driver.replaced
    /\ DATA_TYPE_BINARY \in DOMAIN parsers
    /\ parsers[DATA_TYPE_CAPTOUCH] = "custom_parser"
    /\ last.op = "process_packet"
    /\ IsMessage(last.ret)
    /\ last.ret.data_type = DATA_TYPE_CAPTOUCH
    /\ last.ret.length = CAPTOUCH_BYTES
    /\ "parsed" \in DOMAIN last.ret
    /\ "length" \in DOMAIN last.ret.parsed

----------------------------------------------------------------------------
(* C11: when several threads call process_packet with fragments of one      *)
(* stream, no StreamBuffer object is delivered by more than one call, and   *)
(* streams_completed counts each delivered object once.                     *)
Delivered == {u \in DOMAIN history.objs : history.objs[u].completions >= 1}

C11_DeliveredAtMostOnce ==
    /\ \A u \in DOMAIN history.objs : history.objs[u].completions <= 1
    /\ (\A t \in DOMAIN callers : callers[t].pc = "idle") =>
          stats.streams_completed = Cardinality(Delivered)

----------------------------------------------------------------------------
(* C12: the duplicate check and the marking are one atomic unit: of the     *)
(* calls made at one time with one (device, stream, sequence), one is       *)
(* accepted for assembly, so the sequence is added to one StreamBuffer of   *)
(* the stream, once.  (The clock stands still here, so no entry of the      *)
(* dedup index expires.)                                                    *)
AddedTo(sequence) == {u \in DOMAIN history.objs : sequence \in DOMAIN history.objs[u].adds}

C12_CheckAndMarkAtomic ==
    \A sequence \in 0..3 :
        /\ Cardinality(AddedTo(sequence)) <= 1
        /\ \A u \in AddedTo(sequence) : history.objs[u].adds[sequence] = 1

----------------------------------------------------------------------------
(* C13: when the cleanup thread runs interleaved with process_packet, no    *)
(* StreamBuffer is both counted in streams_timeout and delivered (counted   *)
(* in streams_completed).                                                   *)
C13_TimeoutOrCompletion ==
    \A u \in DOMAIN history.objs :
        ~(history.objs[u].timeouts >= 1 /\ history.objs[u].completions >= 1)

----------------------------------------------------------------------------
(* C20: graceful stop.  Once stop() has set the event the cleanup thread    *)
(* ends; the loop condition of line 104 never passes again, so the thread   *)
(* finishes at most the iteration it was in; and the step of stop() leaves  *)
(* the stream table, the dedup index, the delivered messages and every      *)
(* counter as they were.                                                    *)
StopStep == ~cleanup_stop_event /\ cleanup_stop_event'

LoopConditionPasses == cleanup_thread.pc = "test" /\ cleanup_thread'.pc = "cleanup"

C20_GracefulStop ==
    /\ cleanup_stop_event ~> ~IsAlive(cleanup_thread)
    /\ [][cleanup_stop_event => ~LoopConditionPasses]_vars
    /\ [][cleanup_stop_event => cleanup_stop_event']_vars
    /\ [][StopStep => UNCHANGED <<streams, seen_packets, completed_streams,
                                  stats, heap, callers, cleanup_thread>>]_vars

\* the thread swept a stream that had timed out, stop() was called, and the
\* thread left its loop while an entry of the dedup index is still held
C20_Witness ==
    /\ cleanup_stop_event
    /\ cleanup_thread.pc = "done"
    /\ stats.streams_timeout = 1
    /\ DOMAIN seen_packets # {}

----------------------------------------------------------------------------
(* C21: a process_packet call rejected as a duplicate adds 1 to             *)
(* packets_received and to packets_duplicate and changes nothing else: the  *)
(* dedup entry keeps the timestamp of the sighting that was accepted and    *)
(* the stream table is as before.  So a cleanup(now) run evicts every entry *)
(* with now - (time of the accepted sighting) > dedup_timeout, however      *)
(* recently duplicates of it arrived.                                       *)
StepIsDuplicate == ProcessStep /\ StepDecodes /\ StepKey \in DOMAIN seen_packets

C21_DuplicateDoesNotRefresh ==
    /\ [][StepIsDuplicate =>
            /\ last'.ret = None
            /\ stats' = [stats EXCEPT !.packets_received = @ + 1,
                                      !.packets_duplicate = @ + 1]
            /\ seen_packets' = seen_packets
            /\ streams' = streams
            /\ completed_streams' = completed_streams
            /\ parsers' = parsers
         ]_vars
    /\ [][CleanupStep =>
            \A key \in DOMAIN seen_packets :
                (last'.now - seen_packets[key] > dedup_timeout)
                    => key \notin DOMAIN seen_packets'
         ]_vars

\* a duplicate arrived 2 seconds after the accepted sighting, and the entry
\* still holds the time of the accepted sighting
C21_Witness ==
    /\ last.op = "process_packet"
    /\ last.header # None
    /\ last.ret = None
    /\ stats.packets_duplicate = 1
    /\ DedupKey(last.device_id, last.header) \in DOMAIN seen_packets
    /\ seen_packets[DedupKey(last.device_id, last.header)] = 0
    /\ last.timestamp = 2

----------------------------------------------------------------------------
(* C22: a process_packet call whose key (device, stream, sequence) is not   *)
(* in the dedup index, in particular one whose key a cleanup run has        *)
(* evicted, is accepted: packets_duplicate stays, the key is in the index   *)
(* afterwards with the timestamp of this call, and the fragment is stored   *)
(* in the StreamBuffer of its stream, which is a new one when the table     *)
(* held none for the stream (the earlier one completed or timed out).       *)
C22_AcceptedAgainAfterEviction ==
    [][(ProcessStep /\ StepAccepted) =>
         /\ stats'.packets_duplicate = stats.packets_duplicate
         /\ StepKey \in DOMAIN seen_packets'
         /\ seen_packets'[StepKey] = last'.timestamp
         /\ IF StepStreamKey \in DOMAIN streams
            THEN history'.objs = history.objs \/ last'.ret # None
            ELSE /\ Len(history'.objs) = Len(history.objs) + 1
                 /\ history'.objs[Len(history'.objs)].key = StepStreamKey
         /\ IF last'.ret = None
            THEN /\ StepStreamKey \in DOMAIN streams'
                 /\ streams'[StepStreamKey].packets = StepStored
            ELSE /\ last'.ret.packets_received = Cardinality(DOMAIN StepStored)
                 /\ last'.ret.data = StepData
      ]_vars

\* a whole message (sequence 0) was delivered at time 0, a cleanup run
\* evicted its dedup key, and a fragment with sequence 0 of the same stream
\* has now been accepted into a second StreamBuffer
C22_Witness ==
    /\ last.op = "process_packet"
    /\ last.header # None
    /\ last.header.sequence = 0
    /\ last.header.total_packets = 2
    /\ last.ret = None
    /\ stats.packets_received = 2
    /\ stats.packets_duplicate = 0
    /\ stats.streams_completed = 1
    /\ Len(history.objs) = 2
    /\ history.objs[1].total_packets = 1
    /\ history.objs[1].completions = 1
    /\ seen_packets = (DedupKey(last.device_id, last.header) :> last.timestamp)
    /\ last.timestamp = 3
    /\ StreamKey(last.device_id, last.header) \in DOMAIN streams
    /\ streams[StreamKey(last.device_id, last.header)].packets = (0 :> last.header.payload)

----------------------------------------------------------------------------
(* C25: the decoder applied to a completed stream is the one registered for *)
(* the data_type the returned message reports (the type of the stream's     *)
(* first fragment): when a decoder is registered for that type, the message *)
(* carries its result or the failure is counted in parse_errors; when none  *)
(* is registered, no decoder runs.                                          *)
C25_DecoderOfStreamType ==
    [][(ProcessStep /\ last'.ret # None) =>
          IF last'.ret.data_type \in DOMAIN parsers
          THEN \/ "parsed" \in DOMAIN last'.ret
               \/ stats'.parse_errors = stats.parse_errors + 1
          ELSE /\ "parsed" \notin DOMAIN last'.ret
               /\ stats'.parse_errors = stats.parse_errors
      ]_vars

----------------------------------------------------------------------------
(* C23: one cleanup(now) run removes exactly the streams of the table with  *)
(* now - first_packet_time > stream_timeout and adds their number to        *)
(* streams_timeout (no other counter changes); every other stream stays in  *)
(* the table as it was; cleanup returns nothing and queues no message.      *)
StepTimedOut ==
    {key \in DOMAIN streams :
        last'.now - streams[key].first_packet_time > stream_timeout}

C23_SweepRemovesExactlyOverdue ==
    [][CleanupStep =>
          /\ DOMAIN streams' = DOMAIN streams \ StepTimedOut
          /\ \A key \in DOMAIN streams' : streams'[key] = streams[key]
          /\ stats' = [stats EXCEPT !.streams_timeout = @ + Cardinality(StepTimedOut)]
          /\ completed_streams' = completed_streams
          /\ last'.ret = None
      ]_vars

\* streams were begun at times 0 and 1, and the cleanup run at time 2, with
\* a timeout of 1 second, removed the first and kept the second, whose age
\* equals the timeout
C23_Witness ==
    /\ last.op = "cleanup"
    /\ last.now = 2
    /\ stream_timeout = 1
    /\ stats.packets_received = 2
    /\ stats.streams_timeout = 1
    /\ Cardinality(DOMAIN streams) = 1
    /\ \A key \in DOMAIN streams :
          /\ streams[key].first_packet_time = 1
          /\ Cardinality(DOMAIN streams[key].packets) = 1
    /\ completed_streams = <<>>

----------------------------------------------------------------------------
(* C24: one cleanup(now) run removes exactly the dedup entries with         *)
(* now - timestamp > dedup_timeout; the other entries keep their key and    *)
(* their timestamp, and the run adds no entry.                              *)
StepExpired ==
    {key \in DOMAIN seen_packets : last'.now - seen_packets[key] > dedup_timeout}

C24_SweepEvictsExactlyExpired ==
    [][CleanupStep =>
          /\ DOMAIN seen_packets' = DOMAIN seen_packets \ StepExpired
          /\ \A key \in DOMAIN seen_packets' : seen_packets'[key] = seen_packets[key]
      ]_vars

\* fragments were accepted at times 0 and 1, and the cleanup run at time 3,
\* with a timeout of 2 seconds, evicted the first entry and kept the second,
\* whose age equals the timeout
C24_Witness ==
    /\ last.op = "cleanup"
    /\ last.now = 3
    /\ dedup_timeout = 2
    /\ stats.packets_received = 2
    /\ stats.packets_duplicate = 0
    /\ Cardinality(DOMAIN seen_packets) = 1
    /\ \A key \in DOMAIN seen_packets : seen_packets[key] = 1

----------------------------------------------------------------------------
(* C28: a call is rejected as a duplicate exactly when the triple (device,  *)
(* stream, sequence) of its fragment is in the dedup index at that moment;  *)
(* the index holds only triples that were presented, so a fragment that     *)
(* differs from every earlier one in its device, its stream id or its       *)
(* sequence is never rejected as a duplicate.                               *)
StepTriple == <<last'.device_id, last'.header.stream_id, last'.header.sequence>>

StepRejectedAsDuplicate == stats'.packets_duplicate = stats.packets_duplicate + 1

C28_DuplicateIffExactTriple ==
    /\ [](DOMAIN seen_packets \subseteq driver.arrived)
    /\ [][(ProcessStep /\ StepDecodes) =>
            /\ StepRejectedAsDuplicate <=> StepTriple \in DOMAIN seen_packets
            /\ StepTriple \notin driver.arrived => ~StepRejectedAsDuplicate
            /\ ~StepRejectedAsDuplicate => stats'.packets_duplicate = stats.packets_duplicate
         ]_vars

\* four fragments were accepted and none rejected: one, and three that each
\* differ from it in the device only, in the stream id only, in the
\* sequence only
C28_Witness ==
    /\ driver.calls = 4
    /\ stats.packets_duplicate = 0
    /\ driver.arrived = {<<Device, TestStreamId, 0>>, <<OtherDevice, TestStreamId, 0>>,
                         <<Device, TestStreamId + 1, 0>>, <<Device, TestStreamId, 1>>}
    /\ DOMAIN seen_packets = driver.arrived

----------------------------------------------------------------------------
(* C29: streams are kept apart by (device, stream id).  Whatever the order  *)
(* in which fragments of several streams arrive, a StreamBuffer holds only  *)
(* the payloads presented for its own key, a message is returned by the     *)
(* call that brings the last missing fragment of its own stream and holds   *)
(* the payloads of that stream only, and streams_completed is the number of *)
(* streams whose fragments have all arrived.                                *)
StreamKeys == StreamDevices \X StreamIds

Arrived(key) == {sequence \in StreamSequences : <<key[1], key[2], sequence>> \in driver.arrived}

Whole(key) == Arrived(key) = StreamSequences

OwnData(key) == StreamPayload(key[1], key[2], 0) \o StreamPayload(key[1], key[2], 1)

C29_StreamsIsolated ==
    /\ \A key \in DOMAIN streams :
          /\ key \in StreamKeys
          /\ ~Whole(key)
          /\ DOMAIN streams[key].packets = Arrived(key)
          /\ \A sequence \in Arrived(key) :
                streams[key].packets[sequence] = StreamPayload(key[1], key[2], sequence)
    /\ \A key \in StreamKeys : Arrived(key) # {} /\ ~Whole(key) => key \in DOMAIN streams
    /\ stats.streams_completed = Cardinality({key \in StreamKeys : Whole(key)})
    /\ Len(completed_streams) = stats.streams_completed
    /\ \A i \in DOMAIN completed_streams :
          LET message == completed_streams[i]
              key == <<message.device_id, message.stream_id>>
          IN  /\ Whole(key)
              /\ message.data = OwnData(key)
              /\ message.complete
              /\ \A j \in DOMAIN completed_streams :
                    j # i => key # <<completed_streams[j].device_id,
                                     completed_streams[j].stream_id>>
    /\ (last.op = "process_packet" /\ last.ret # None) =>
          /\ last.ret = completed_streams[Len(completed_streams)]
          /\ last.ret.device_id = last.device_id
          /\ last.ret.stream_id = last.header.stream_id

\* the call completed the stream of one device while a stream with the same
\* stream id of the other device, begun earlier, is still being assembled
C29_Witness ==
    /\ driver.calls = 3
    /\ last.op = "process_packet"
    /\ last.ret # None
    /\ last.ret.data = OwnData(<<last.device_id, last.header.stream_id>>)
    /\ stats.streams_completed = 1
    /\ DOMAIN streams = {<<OtherDevice, TestStreamId>>}
    /\ last.device_id = Device
    /\ last.header.stream_id = TestStreamId

----------------------------------------------------------------------------
(* C30: with stream_timeout <= dedup_timeout, timestamps that never         *)
(* decrease and calls made one after the other, every sequence stored in a  *)
(* StreamBuffer of the table has its key (device, stream, sequence) in the  *)
(* dedup index, so add_packet never finds the slot of an accepted fragment  *)
(* occupied.                                                                *)
StepSlotOccupied ==
    /\ StepStreamKey \in DOMAIN streams
    /\ StepHeader.sequence \in DOMAIN streams[StepStreamKey].packets

C30_NoOverwrite ==
    /\ [](stream_timeout <= dedup_timeout)
    /\ [](\A key \in DOMAIN streams :
            \A sequence \in DOMAIN streams[key].packets :
                <<key[1], key[2], sequence>> \in DOMAIN seen_packets)
    /\ [][(ProcessStep /\ StepAccepted) => ~StepSlotOccupied]_vars

\* with both timeouts equal, the same fragment was presented twice and
\* accepted twice: a cleanup run in between evicted its dedup entry and, in
\* the same run, removed the stream that held it, so the second call stored
\* it in a fresh StreamBuffer
C30_Witness ==
    /\ stream_timeout = dedup_timeout
    /\ driver.calls = 2
    /\ Cardinality(driver.arrived) = 1
    /\ stats.packets_duplicate = 0
    /\ stats.streams_timeout = 1
    /\ last.op = "process_packet"
    /\ Len(history.objs) = 2
    /\ history.objs[1].timeouts = 1
    /\ Cardinality(DOMAIN streams) = 1

----------------------------------------------------------------------------
(* C26: the look-up-or-create of the StreamBuffer is atomic: no accepted    *)
(* fragment is ever held by a StreamBuffer that is not in the stream table, *)
(* unless that buffer has been delivered or is being delivered by the call  *)
(* that deleted it.                                                         *)
InTable(u) == \E key \in DOMAIN streams : streams[key].ref = u

BeingDelivered(u) ==
    \E t \in DOMAIN callers : callers[t].pc = "completed_store" /\ callers[t].stream = u

C26_LookupOrCreateAtomic ==
    \A u \in DOMAIN history.objs :
        history.objs[u].adds # <<>> =>
            \/ InTable(u)
            \/ history.objs[u].completions >= 1
            \/ BeingDelivered(u)

----------------------------------------------------------------------------
(* C27: while the cleanup thread is running and stop() has not been called, *)
(* every stream that never completes is eventually removed from the table,  *)
(* also when process_packet changes the tables during the sweep.  Only the  *)
(* cleanup thread removes such a stream, so this requires that the thread   *)
(* does not die because the shared state changed during its scan: as long   *)
(* as stop() has not been called, the thread is alive.                      *)
C27_SweeperSurvivesConcurrentCalls ==
    ~cleanup_stop_event => IsAlive(cleanup_thread)

----------------------------------------------------------------------------
(* C31: in sequential execution, between any two operations every stream in *)
(* the table holds at least 1 and strictly fewer than its total_packets     *)
(* fragments, so a complete stream never stays in the table; and a          *)
(* process_packet call that creates a StreamBuffer with total_packets = 1   *)
(* returns its message and leaves no stream under its key.                  *)
Stored(stream) == Cardinality(DOMAIN stream.packets)

StepCreates == Len(history'.objs) = Len(history.objs) + 1

C31_ActiveStreamsPartial ==
    /\ [](\A key \in DOMAIN streams :
             /\ Stored(streams[key]) >= 1
             /\ Stored(streams[key]) < streams[key].total_packets)
    /\ [][(ProcessStep /\ StepCreates /\ StepHeader.total_packets = 1) =>
             /\ last'.ret # None
             /\ last'.ret.packets_expected = 1
             /\ StepStreamKey \notin DOMAIN streams'
             /\ history'.objs[Len(history'.objs)].completions = 1
         ]_vars

\* a 1-fragment stream has been created and delivered by one call, and a
\* later fragment has opened a 2-fragment stream that holds 1 fragment
C31_Witness ==
    /\ \E u \in DOMAIN history.objs :
          /\ history.objs[u].total_packets = 1
          /\ history.objs[u].completions = 1
    /\ \E key \in DOMAIN streams :
          /\ streams[key].total_packets = 2
          /\ Stored(streams[key]) = 1

----------------------------------------------------------------------------
(* C32: in sequential execution none of the five counters ever decreases,   *)
(* packets_duplicate <= packets_received, the number of StreamBuffers ever  *)
(* created equals streams_completed + streams_timeout + the number of       *)
(* active streams, and that number is at most packets_received -            *)
(* packets_duplicate.                                                       *)
Created == Len(history.objs)

active_streams == Cardinality(DOMAIN streams)

C32_CountersBalance ==
    /\ [](/\ stats.packets_duplicate <= stats.packets_received
          /\ Created = stats.streams_completed + stats.streams_timeout + active_streams
          /\ Created <= stats.packets_received - stats.packets_duplicate)
    /\ [][\A counter \in DOMAIN stats : stats'[counter] >= stats[counter]]_vars

\* three StreamBuffers have been created: one was delivered, one was swept
\* for timeout and one is active
C32_Witness ==
    /\ Created = 3
    /\ stats.streams_completed = 1
    /\ stats.streams_timeout = 1
    /\ active_streams = 1

----------------------------------------------------------------------------
(* C33: after an incomplete stream has been evicted for timeout, a new      *)
(* StreamBuffer created under the same (device, stream) key for the same    *)
(* message cannot complete while a dedup entry of a fragment of the evicted *)
(* stream is still present: no process_packet call returns a message for    *)
(* that key.  Stated for keys under which no stream has completed before,   *)
(* so that every dedup entry of the key that is not a fragment of the       *)
(* active stream is one of an evicted stream.                               *)
Earlier(key) == {u \in DOMAIN history.objs : history.objs[u].key = key}

\* every stream that has existed under key was evicted for timeout, except
\* the active one, and all of them were created for total_packets fragments
OnlyEvicted(key) ==
    /\ key \in DOMAIN streams
    /\ \E u \in Earlier(key) : history.objs[u].timeouts >= 1
    /\ \A u \in Earlier(key) :
          /\ history.objs[u].completions = 0
          /\ history.objs[u].total_packets = streams[key].total_packets

\* the dedup entries of key whose fragment is not stored in the active stream
EvictedEntries(key) ==
    {k \in DOMAIN seen_packets :
        /\ <<k[1], k[2]>> = key
        /\ k[3] \notin DOMAIN streams[key].packets}

C33_NoCompletionInsideDedupWindow ==
    [][(ProcessStep /\ StepDecodes /\ OnlyEvicted(StepStreamKey)
          /\ EvictedEntries(StepStreamKey) # {})
        => last'.ret = None]_vars

----------------------------------------------------------------------------
(* C34: every message returned by process_packet is appended exactly once   *)
(* to completed_streams, in completion order; get_completed_stream removes  *)
(* and returns the oldest queued message and returns None when the queue is *)
(* empty, so completed_pending = streams_completed - the number of          *)
(* successful get_completed_stream calls; cleanup never removes a queued    *)
(* message.                                                                 *)
GetStep == last'.op = "get_completed_stream"

C34_QueueIsFifo ==
    /\ [](/\ driver.returned = driver.taken \o completed_streams
          /\ Len(driver.returned) = stats.streams_completed
          /\ completed_pending = stats.streams_completed - Len(driver.taken))
    /\ [][ProcessStep =>
             completed_streams' = IF last'.ret # None
                                  THEN Append(completed_streams, last'.ret)
                                  ELSE completed_streams]_vars
    /\ [][GetStep =>
             IF completed_streams = <<>>
             THEN /\ last'.ret = None
                  /\ completed_streams' = <<>>
                  /\ driver'.taken = driver.taken
             ELSE /\ last'.ret = Head(completed_streams)
                  /\ completed_streams' = Tail(completed_streams)
                  /\ driver'.taken = Append(driver.taken, last'.ret)]_vars
    /\ [][CleanupStep => completed_streams' = completed_streams]_vars

\* two different messages were queued when get_completed_stream returned
\* the first of them; the second is still pending
C34_Witness ==
    /\ last.op = "get_completed_stream"
    /\ Len(driver.returned) = 2
    /\ driver.returned[1] # driver.returned[2]
    /\ driver.taken = <<driver.returned[1]>>
    /\ last.ret = driver.returned[1]
    /\ completed_streams = <<driver.returned[2]>>
    /\ stats.streams_completed = 2

====
